---- MODULE Spec2Model ----
(***************************************************************************)
(* A model of the handler-side runtime of the Kaleido workflow engine SDK: *)
(*   - the directed execution engine (helpers/stage_director.ts:           *)
(*     evalDirected, execMapped, execBatchMapped, mapOutput) as driven by  *)
(*     HandlerRuntime.handleTransactionsMessage;                           *)
(*   - the connection manager of runtime/handler_runtime.ts (start, stop,  *)
(*     connectWebSocket under backOff, onOpen/onError/onClose, the accept  *)
(*     mode listener, registration and the heartbeat timers).              *)
(*   - the request correlator of runtime/engine_client.ts;                 *)
(*   - the event request handlers of the runtime and the config cache of   *)
(*     factories/EventSourceBase.                                          *)
(* Spec        is the dispatch of one handle_transactions request.         *)
(* SpecConn    is the connection manager.                                  *)
(* SpecCalls   is the request correlator over one connection.              *)
(* SpecMap     is one call of mapOutput.                                   *)
(* SpecInbound is the handling of event requests, several at a time.       *)
(* SpecContext is event processor batches whose user code makes calls.     *)
(***************************************************************************)
EXTENDS Integers, Sequences, FiniteSets, TLC

\* ------------------------------------------------------------------ bounds
\* Items in one inbound handle_transactions batch.
MaxItems == 2

\* ------------------------------------------------------------ basic values
\* Strings of the source that carry data (error messages, output values) are
\* tuples of strings here, so that a message can carry its parameters;
\* undefined / null is the empty tuple.
NoValue == << >>
\* An unset optional error field of a reply.
Absent == << >>
\* An unset optional stage; also every falsy string of a directive.
NoStage == ""
\* A slot of `new Array(n)` that was never assigned / an undefined result.
Hole == [hole |-> TRUE]

PARALLEL == "parallel"
BATCH == "batch"

COMPLETE == "COMPLETE"
HARD_FAILURE == "HARD_FAILURE"
WAITING == "WAITING"
FIXABLE_ERROR == "FIXABLE_ERROR"
TRANSIENT_ERROR == "TRANSIENT_ERROR"

MsgOutputPathMissing == <<"KA140605">>
MsgFailureStageMissing == <<"KA140606">>
MsgNextStageMissing == <<"KA140604">>
MsgHandlerNotConfigured == <<"KA140621">>
MsgBatchHandlerNotConfigured == <<"KA140622">>
\* `Input parsing error: ${getErrorMessage(error)}` for the two parse failures.
MsgInputNull == <<"Input parsing error", "input null or undefined">>
MsgMissingAction == <<"Input parsing error", "missing action field">>
\* `Invalid action '<action>' for handler '<handler>'`
MsgInvalidAction(action, handler) == <<"Invalid action", action, handler>>
\* MsgSDKBatchHandlerResultCountMismatch with the two counts.
MsgCountMismatch(got, want) == <<"KA140623", ToString(got), ToString(want)>>
\* `No transaction handler registered: <name>`
MsgNoTransactionHandler(name) == <<"No transaction handler registered", name>>

\* ------------------------------------------------------- reply results
\* WSEvaluateReplyResult with every optional field spelled out.
EmptyReplyResult ==
  [error |-> Absent, stage |-> NoStage, stateUpdates |-> << >>,
   triggers |-> << >>, events |-> << >>]

\* `{ error: <message> }`
ErrorResult(m) == [EmptyReplyResult EXCEPT !.error = m]

AddOp(path, value) == [op |-> "add", path |-> path, value |-> value]

\* StageDirectorHelper.mapOutput, statement by statement.
mapOutput(sd, result, output, error, triggers, extraStateUpdates, customStage, events) ==
  LET r0 == [EmptyReplyResult EXCEPT !.triggers = triggers, !.events = events]
      hasOutput == output # NoValue
      pathMissing == hasOutput /\ sd.outputPath = ""
      \* output handling may replace error and result
      error1 == IF pathMissing /\ error = NoValue THEN MsgOutputPathMissing ELSE error
      result1 == IF pathMissing /\ error = NoValue THEN FIXABLE_ERROR ELSE result
      r1 == IF hasOutput /\ ~pathMissing
              THEN [r0 EXCEPT !.stateUpdates = <<AddOp(sd.outputPath, output)>>]
              ELSE r0
      r2 == IF Len(extraStateUpdates) > 0
              THEN [r1 EXCEPT !.stateUpdates = r1.stateUpdates \o extraStateUpdates]
              ELSE r1
  IN CASE result1 = HARD_FAILURE ->
            IF sd.failureStage = "" /\ customStage = ""
              THEN [r2 EXCEPT !.error =
                      IF error1 = NoValue THEN MsgFailureStageMissing ELSE error1]
              ELSE LET next == IF customStage # "" THEN customStage ELSE sd.failureStage
                       r3 == [r2 EXCEPT !.stage = next]
                   IN IF error1 # NoValue
                        THEN [r3 EXCEPT !.stateUpdates =
                                Append(r3.stateUpdates, AddOp("/error", error1))]
                        ELSE r3
       [] result1 = COMPLETE ->
            LET next == IF customStage # "" THEN customStage ELSE sd.nextStage
            IN IF next = "" THEN ErrorResult(MsgNextStageMissing)
                            ELSE [r2 EXCEPT !.stage = next]
       [] result1 = WAITING -> r2
       [] OTHER ->
            IF error1 # NoValue THEN [r2 EXCEPT !.error = error1] ELSE r2

\* --------------------------------------------------------------- inputs
\* StageDirector of an item: the four directive fields ("" is any falsy string).
Directive(action, outputPath, nextStage, failureStage) ==
  [action |-> action, outputPath |-> outputPath,
   nextStage |-> nextStage, failureStage |-> failureStage]

\* The `input` of one WSEvaluateRequest: null, a plain JSON object (its own
\* fields are the directive) or a typed wrapper with getStageDirector().
NullInput == [kind |-> "null", sd |-> Directive("", "", "", "")]
PlainInput(sd) == [kind |-> "plain", sd |-> sd]
TypedInput(sd) == [kind |-> "typed", sd |-> sd]

\* The actionMap of the registered directed handler: two well-formed
\* actions and the two misconfigured ones (a mode without its callback).
ActionNames == {"par", "bat", "parNoCb", "batNoCb"}
actionMap ==
  [a \in ActionNames |->
     CASE a = "par"     -> [invocationMode |-> PARALLEL, handler |-> TRUE,  batchHandler |-> FALSE]
       [] a = "bat"     -> [invocationMode |-> BATCH,    handler |-> FALSE, batchHandler |-> TRUE]
       [] a = "parNoCb" -> [invocationMode |-> PARALLEL, handler |-> FALSE, batchHandler |-> FALSE]
       [] a = "batNoCb" -> [invocationMode |-> BATCH,    handler |-> FALSE, batchHandler |-> FALSE]]

\* The inputs a batch is drawn from: every parse outcome, both modes, two
\* different directives per well-formed action.
InputSamples ==
  { NullInput,
    PlainInput(Directive("", "/output", "end", "failed")),
    PlainInput(Directive("nope", "/output", "end", "failed")),
    PlainInput(Directive("par", "/output", "end", "failed")),
    PlainInput(Directive("par", "", "", "")),
    PlainInput(Directive("bat", "/output", "end", "failed")),
    TypedInput(Directive("bat", "/out2", "end", "")),
    PlainInput(Directive("parNoCb", "/output", "end", "failed")),
    PlainInput(Directive("batNoCb", "/output", "end", "failed")) }

\* What a user callback hands back for one item: a DirectedTransactionResult
\* or a thrown error.
Outcome(result, output, error, triggers, extraUpdates, customStage, events) ==
  [thrown |-> FALSE, msg |-> NoValue, result |-> result, output |-> output,
   error |-> error, triggers |-> triggers, extraUpdates |-> extraUpdates,
   customStage |-> customStage, events |-> events]
Thrown(m) ==
  [thrown |-> TRUE, msg |-> m, result |-> "", output |-> NoValue,
   error |-> NoValue, triggers |-> << >>, extraUpdates |-> << >>,
   customStage |-> "", events |-> << >>]
NotCalled == [notCalled |-> TRUE]

OutcomeSamples ==
  << Outcome(COMPLETE, <<"out1">>, NoValue, << >>, << >>, "", <<"ev1">>),
     Outcome(HARD_FAILURE, NoValue, <<"failed2">>, << >>,
             <<AddOp("/x", <<"1">>)>>, "", << >>),
     Outcome(WAITING, NoValue, NoValue, <<"trig3">>, << >>, "", << >>) >>
NumOutcomes == Len(OutcomeSamples)

\* The registered handler names; a request may also name "ghost" or nothing.
RegisteredHandlers == {"directed"}
NoHandler == ""
HandlerNames == RegisteredHandlers \cup {"ghost", NoHandler}

\* ------------------------------------------------- the execution engine
\* The settlement of a promise.
Fulfilled(v) == [rejected |-> FALSE, value |-> v, reason |-> NoValue]
RejectedWith(m) == [rejected |-> TRUE, value |-> Hole, reason |-> m]

\* A set of indices as the ascending sequence the loops walk.
RECURSIVE Ascending(_)
Ascending(S) ==
  IF S = {} THEN << >>
  ELSE LET m == CHOOSE x \in S : \A y \in S : x <= y
       IN <<m>> \o Ascending(S \ {m})

\* evalDirected phase 1, the try block: the parse error of an input, if any.
ParseError(input) ==
  CASE input.kind = "null" -> MsgInputNull
    [] input.kind = "plain" /\ input.sd.action = "" -> MsgMissingAction
    [] OTHER -> NoValue

\* evalDirected phase 1: item i survives into a bucket.
Routed(requests, i) ==
  /\ ParseError(requests[i]) = NoValue
  /\ requests[i].sd.action \in DOMAIN actionMap

\* C25 mutant: phase 1 without the action-table check.
Phase1Results_NoActionCheck(requests, handlerName) ==
  [i \in 1..Len(requests) |->
     IF ParseError(requests[i]) # NoValue
       THEN ErrorResult(ParseError(requests[i]))
     ELSE Hole]

\* evalDirected phase 1: reply.results after the loop (new Array(n) with the
\* parse and routing errors filled in).
Phase1Results(requests, handlerName) ==
  [i \in 1..Len(requests) |->
     IF ParseError(requests[i]) # NoValue
       THEN ErrorResult(ParseError(requests[i]))
     ELSE IF requests[i].sd.action \notin DOMAIN actionMap
       THEN ErrorResult(MsgInvalidAction(requests[i].sd.action, handlerName))
     ELSE Hole]

\* evalDirected phase 1: byAction.get(a), the indices of the bucket in order.
Bucket(requests, a) ==
  Ascending({i \in 1..Len(requests) : Routed(requests, i) /\ requests[i].sd.action = a})

\* The position of item i in its bucket.
PositionInBucket(requests, i) ==
  CHOOSE j \in 1..Len(Bucket(requests, requests[i].sd.action)) :
    Bucket(requests, requests[i].sd.action)[j] = i

\* execMapped: the settlement of the promise for one Parallel item whose
\* callback did `o`.
execMapped_NoCatch(conf, sd, o) ==
  IF ~conf.handler THEN RejectedWith(MsgHandlerNotConfigured)
  ELSE IF o.thrown THEN RejectedWith(o.msg)
  ELSE Fulfilled(mapOutput(sd, o.result, o.output, o.error, o.triggers,
                           o.extraUpdates, o.customStage, o.events))

execMapped(conf, sd, o) ==
  IF ~conf.handler THEN Fulfilled(ErrorResult(MsgHandlerNotConfigured))
  ELSE IF o.thrown THEN Fulfilled(ErrorResult(o.msg))
  ELSE Fulfilled(mapOutput(sd, o.result, o.output, o.error, o.triggers,
                           o.extraUpdates, o.customStage, o.events))

\* What a batch callback hands back: an array of outcomes or a thrown error.
BatchReturn(results) == [thrown |-> FALSE, msg |-> NoValue, results |-> results]
BatchThrown(m) == [thrown |-> TRUE, msg |-> m, results |-> << >>]

\* The mapping execBatchMapped applies to one item of a well-counted batch
\* (mapOutput without the events argument).
MapBatchItem(sd, o) ==
  mapOutput(sd, o.result, o.output, o.error, o.triggers, o.extraUpdates,
            o.customStage, << >>)

\* execBatchMapped: the settlement of the batch promise, given the
\* directives of the bucket's items and what the callback did.
execBatchMapped_NoCountCheck(conf, sds, ret) ==
  IF ~conf.batchHandler THEN RejectedWith(MsgBatchHandlerNotConfigured)
  ELSE IF ret.thrown THEN Fulfilled([j \in 1..Len(sds) |-> ErrorResult(ret.msg)])
  ELSE IF Len(ret.results) < Len(sds)
    THEN Fulfilled([j \in 1..Len(sds) |-> ErrorResult(<<"TypeError">>)])
  ELSE Fulfilled([j \in 1..Len(sds) |-> MapBatchItem(sds[j], ret.results[j])])

\* C26 mutant: a missing batch callback is caught like a callback's throw.
execBatchMapped_MissingCaught(conf, sds, ret) ==
  IF ~conf.batchHandler
    THEN Fulfilled([j \in 1..Len(sds) |-> ErrorResult(MsgBatchHandlerNotConfigured)])
  ELSE IF ret.thrown THEN Fulfilled([j \in 1..Len(sds) |-> ErrorResult(ret.msg)])
  ELSE IF Len(ret.results) # Len(sds)
    THEN Fulfilled([j \in 1..Len(sds) |->
                      ErrorResult(MsgCountMismatch(Len(ret.results), Len(sds)))])
  ELSE Fulfilled([j \in 1..Len(sds) |-> MapBatchItem(sds[j], ret.results[j])])

execBatchMapped(conf, sds, ret) ==
  IF ~conf.batchHandler THEN RejectedWith(MsgBatchHandlerNotConfigured)
  ELSE IF ret.thrown THEN Fulfilled([j \in 1..Len(sds) |-> ErrorResult(ret.msg)])
  ELSE IF Len(ret.results) # Len(sds)
    THEN Fulfilled([j \in 1..Len(sds) |->
                      ErrorResult(MsgCountMismatch(Len(ret.results), Len(sds)))])
  ELSE Fulfilled([j \in 1..Len(sds) |-> MapBatchItem(sds[j], ret.results[j])])

\* The outcomes a Parallel callback may produce for one item.
CallbackOutcomes ==
  {OutcomeSamples[k] : k \in 1..NumOutcomes} \cup {Thrown(<<"boom">>)}

\* The returns a batch callback may produce for a bucket of k items: the
\* right count, one fewer, one more (each with the samples rotated by r so
\* that positions differ), or a throw.
BatchReturns(k) ==
  { BatchReturn([j \in 1..len |-> OutcomeSamples[((j + r) % NumOutcomes) + 1]]) :
      len \in {k - 1, k, k + 1}, r \in 0..(NumOutcomes - 1) }
  \cup {BatchThrown(<<"batch boom">>)}

\* evalDirected phase 3: reply.results after the completed requests'
\* results are stored at their own idx.
Phase3_ByBucketPosition(results, requests, reqResult) ==
  [i \in 1..Len(results) |->
     IF \E k \in 1..Len(requests) : Routed(requests, k) /\ PositionInBucket(requests, k) = i
       THEN LET k == CHOOSE k \in 1..Len(requests) :
                       Routed(requests, k) /\ PositionInBucket(requests, k) = i
            IN IF reqResult[k] # Hole THEN reqResult[k] ELSE results[i]
       ELSE results[i]]

Phase3(results, requests, reqResult) ==
  [i \in 1..Len(results) |->
     IF Routed(requests, i) /\ reqResult[i] # Hole THEN reqResult[i] ELSE results[i]]

\* handleTransactionsMessage, the catch block: one error per transaction.
CatchResults_KeepPartial(results, transactions, m) == results

CatchResults(results, transactions, m) ==
  [i \in 1..Len(transactions) |-> ErrorResult(m)]

\* JSON.stringify of a results array: a hole is serialised as null.
JsonNull == [null |-> TRUE]
Serialise(results) ==
  [i \in 1..Len(results) |-> IF results[i] = Hole THEN JsonNull ELSE results[i]]

\* ------------------------------------- state of one request's dispatch
VARIABLES
  batch,        \* the inbound WSHandleTransactions: id, handler, transactions
  pc,           \* "received", "running" (awaiting the handler), "replied", "dropped"
  response,     \* the WSHandleTransactionsResult under construction
  reqResult,    \* ExecutableRequest.result of each item (Hole = unset)
  parCall,      \* per item: the Parallel promise, "none" / "pending" / "done" / "rejected"
  cbOut,        \* per item: what its Parallel callback did (NotCalled before)
  batCall,      \* per action: the batch promise, "none" / "pending" / "done" / "rejected"
  batOut,       \* per action: what the batch callback did (NotCalled before)
  evalState,    \* evalDirected's promise: "none", "running", "resolved", "rejected"
  evalError,    \* the reason evalDirected rejected with
  activeHandlerContext,  \* HandlerRuntime.activeHandlerContext (NoValue = undefined)
  canSend,      \* this.ws && this.isConnected, as sendMessage reads it
  sent,         \* the messages handed to ws.send, serialised
  warned        \* sendMessage logged 'Attempted to send message while disconnected'

evars == <<batch, pc, response, reqResult, parCall, cbOut, batCall, batOut,
           evalState, evalError, activeHandlerContext, canSend, sent, warned>>

NumItems == Len(batch.transactions)

\* Sequences of inputs of length 0..n.
BatchesUpTo(n) == UNION {[1..k -> InputSamples] : k \in 0..n}

InitEval ==
  /\ batch \in [id : {"req-1"}, handler : HandlerNames,
                transactions : BatchesUpTo(MaxItems)]
  /\ pc = "received"
  /\ response = [id |-> "", handler |-> "", results |-> << >>, error |-> Absent]
  /\ reqResult = [i \in 1..Len(batch.transactions) |-> Hole]
  /\ parCall = [i \in 1..Len(batch.transactions) |-> "none"]
  /\ cbOut = [i \in 1..Len(batch.transactions) |-> NotCalled]
  /\ batCall = [a \in ActionNames |-> "none"]
  /\ batOut = [a \in ActionNames |-> NotCalled]
  /\ evalState = "none"
  /\ evalError = NoValue
  /\ activeHandlerContext = NoValue
  /\ canSend = TRUE
  /\ sent = << >>
  /\ warned = FALSE

\* sendMessage: serialise and send if connected, else warn and drop.
sendMessage(m) ==
  IF canSend
    THEN /\ sent' = Append(sent, [m EXCEPT !.results = Serialise(m.results)])
         /\ UNCHANGED warned
    ELSE /\ warned' = TRUE
         /\ UNCHANGED sent

\* handleTransactionsMessage, `if (!batch.handler) return`.
HandleNoHandlerField ==
  /\ pc = "received"
  /\ batch.handler = NoHandler
  /\ pc' = "dropped"
  /\ UNCHANGED <<batch, response, reqResult, parCall, cbOut, batCall, batOut,
                 evalState, evalError, activeHandlerContext, canSend, sent, warned>>

\* handleTransactionsMessage for a name with no registered handler: the
\* else branch, the finally block and sendMessage, all synchronous.
HandleUnregistered ==
  /\ pc = "received"
  /\ batch.handler # NoHandler
  /\ batch.handler \notin RegisteredHandlers
  /\ response' = [id |-> batch.id, handler |-> batch.handler, results |-> << >>,
                  error |-> MsgNoTransactionHandler(batch.handler)]
  /\ activeHandlerContext' = NoValue
  /\ sendMessage(response')
  /\ pc' = "replied"
  /\ UNCHANGED <<batch, reqResult, parCall, cbOut, batCall, batOut,
                 evalState, evalError, canSend>>

\* handleTransactionsMessage for a registered directed handler, up to the
\* await: the context is set and evalDirected runs phase 1 and starts every
\* callback of phase 2.
HandleRegistered ==
  /\ pc = "received"
  /\ batch.handler \in RegisteredHandlers
  /\ activeHandlerContext' = <<batch.id>>
  /\ response' = [id |-> batch.id, handler |-> batch.handler,
                  results |-> Phase1Results(batch.transactions, batch.handler),
                  error |-> Absent]
  /\ parCall' = [i \in 1..NumItems |->
                   IF /\ Routed(batch.transactions, i)
                      /\ actionMap[batch.transactions[i].sd.action].invocationMode = PARALLEL
                     THEN "pending" ELSE "none"]
  /\ batCall' = [a \in ActionNames |->
                   IF actionMap[a].invocationMode = BATCH
                      /\ Bucket(batch.transactions, a) # << >>
                     THEN "pending" ELSE "none"]
  /\ evalState' = "running"
  /\ pc' = "running"
  /\ UNCHANGED <<batch, reqResult, cbOut, batOut, evalError, canSend, sent, warned>>

\* The directives of the items of bucket a, in bucket order.
BucketDirectives(a) ==
  [j \in 1..Len(Bucket(batch.transactions, a)) |->
     batch.transactions[Bucket(batch.transactions, a)[j]].sd]

\* evalDirected phase 2, Parallel: the promise of item i settles. The
\* callback (if configured) does o; `req.result = await execMapped(...)`.
ParallelSettle(i, o) ==
  /\ parCall[i] = "pending"
  /\ LET conf == actionMap[batch.transactions[i].sd.action]
         did == IF conf.handler THEN o ELSE NotCalled
         settled == execMapped(conf, batch.transactions[i].sd, did)
     IN /\ conf.handler \/ o = Thrown(<<"boom">>)
        /\ cbOut' = [cbOut EXCEPT ![i] = did]
        /\ IF settled.rejected
             THEN /\ parCall' = [parCall EXCEPT ![i] = "rejected"]
                  /\ evalError' = IF evalError = NoValue THEN settled.reason ELSE evalError
                  /\ UNCHANGED reqResult
             ELSE /\ parCall' = [parCall EXCEPT ![i] = "done"]
                  /\ reqResult' = [reqResult EXCEPT ![i] = settled.value]
                  /\ UNCHANGED evalError
  /\ UNCHANGED <<batch, pc, response, batCall, batOut, evalState,
                 activeHandlerContext, canSend, sent, warned>>

\* evalDirected phase 2, Batch: the batch promise of action a settles. The
\* callback (if configured) does ret; every item of the bucket gets
\* batchOut[j].
BatchSettle(a, ret) ==
  /\ batCall[a] = "pending"
  /\ LET conf == actionMap[a]
         bucket == Bucket(batch.transactions, a)
         did == IF conf.batchHandler THEN ret ELSE NotCalled
         settled == execBatchMapped(conf, BucketDirectives(a), did)
     IN /\ conf.batchHandler \/ ret = BatchThrown(<<"batch boom">>)
        /\ batOut' = [batOut EXCEPT ![a] = did]
        /\ IF settled.rejected
             THEN /\ batCall' = [batCall EXCEPT ![a] = "rejected"]
                  /\ evalError' = IF evalError = NoValue THEN settled.reason ELSE evalError
                  /\ UNCHANGED reqResult
             ELSE /\ batCall' = [batCall EXCEPT ![a] = "done"]
                  /\ reqResult' = [i \in 1..NumItems |->
                                     IF \E j \in 1..Len(bucket) : bucket[j] = i
                                       THEN settled.value[PositionInBucket(batch.transactions, i)]
                                       ELSE reqResult[i]]
                  /\ UNCHANGED evalError
  /\ UNCHANGED <<batch, pc, response, parCall, cbOut, evalState,
                 activeHandlerContext, canSend, sent, warned>>

\* Promise.all(completions) has every completion fulfilled.
AllFulfilled ==
  /\ \A i \in 1..NumItems : parCall[i] \in {"none", "done"}
  /\ \A a \in ActionNames : batCall[a] \in {"none", "done"}

\* Promise.all(completions) has a rejected completion.
SomeRejected ==
  \/ \E i \in 1..NumItems : parCall[i] = "rejected"
  \/ \E a \in ActionNames : batCall[a] = "rejected"

\* evalDirected phase 3: every completion fulfilled, the results are
\* stored and evalDirected resolves.
EvalResolve ==
  /\ evalState = "running"
  /\ AllFulfilled
  /\ response' = [response EXCEPT
                    !.results = Phase3(response.results, batch.transactions, reqResult)]
  /\ evalState' = "resolved"
  /\ UNCHANGED <<batch, pc, reqResult, parCall, cbOut, batCall, batOut,
                 evalError, activeHandlerContext, canSend, sent, warned>>

\* Promise.all rejects with the first rejection and evalDirected with it,
\* without waiting for the other completions.
EvalReject ==
  /\ evalState = "running"
  /\ SomeRejected
  /\ evalState' = "rejected"
  /\ UNCHANGED <<batch, pc, response, reqResult, parCall, cbOut, batCall, batOut,
                 evalError, activeHandlerContext, canSend, sent, warned>>

\* handleTransactionsMessage after the await resolved: finally, sendMessage.
ReplyAfterResolve ==
  /\ pc = "running"
  /\ evalState = "resolved"
  /\ activeHandlerContext' = NoValue
  /\ sendMessage(response)
  /\ pc' = "replied"
  /\ UNCHANGED <<batch, response, reqResult, parCall, cbOut, batCall, batOut,
                 evalState, evalError, canSend>>

\* handleTransactionsMessage after the await rejected: catch, finally,
\* sendMessage.
ReplyAfterReject ==
  /\ pc = "running"
  /\ evalState = "rejected"
  /\ response' = [response EXCEPT
                    !.results = CatchResults(response.results, batch.transactions, evalError)]
  /\ activeHandlerContext' = NoValue
  /\ sendMessage(response')
  /\ pc' = "replied"
  /\ UNCHANGED <<batch, reqResult, parCall, cbOut, batCall, batOut,
                 evalState, evalError, canSend>>

\* The connection drops while the request is being handled (onClose sets
\* isConnected to false).
ConnectionLost ==
  /\ pc \in {"received", "running"}
  /\ canSend
  /\ canSend' = FALSE
  /\ UNCHANGED <<batch, pc, response, reqResult, parCall, cbOut, batCall, batOut,
                 evalState, evalError, activeHandlerContext, sent, warned>>



\* ------------------------------------------------ claims on the dispatch
\* The reply the peer received for the request, if any.
Replies == {sent[k] : k \in 1..Len(sent)}

\* A results array has one defined entry per item of the request.
OneResultPerItem(results) ==
  /\ Len(results) = NumItems
  /\ \A i \in 1..NumItems : results[i] # JsonNull /\ results[i] # Hole

ExpectedResult(i) ==
  LET input == batch.transactions[i]
      sd == input.sd
  IN IF input.kind = "null" THEN ErrorResult(MsgInputNull)
     ELSE IF input.kind = "plain" /\ sd.action = "" THEN ErrorResult(MsgMissingAction)
     ELSE IF sd.action \notin ActionNames
       THEN ErrorResult(MsgInvalidAction(sd.action, batch.handler))
     ELSE IF actionMap[sd.action].invocationMode = PARALLEL
       THEN LET o == cbOut[i]
            IN IF o = NotCalled THEN ErrorResult(MsgHandlerNotConfigured)
               ELSE IF o.thrown THEN ErrorResult(o.msg)
               ELSE mapOutput(sd, o.result, o.output, o.error, o.triggers,
                              o.extraUpdates, o.customStage, o.events)
     ELSE LET ret == batOut[sd.action]
              size == Len(Bucket(batch.transactions, sd.action))
          IN IF ret.thrown THEN ErrorResult(ret.msg)
             ELSE IF Len(ret.results) # size
               THEN ErrorResult(MsgCountMismatch(Len(ret.results), size))
             ELSE LET o == ret.results[PositionInBucket(batch.transactions, i)]
                  IN mapOutput(sd, o.result, o.output, o.error, o.triggers,
                               o.extraUpdates, o.customStage, << >>)

\* C2: once evalDirected has resolved, reply slot i holds the mapped
\* outcome of item i's own callback invocation (or item i's own parse or
\* routing error), for every i, in every settlement order.
C2_SlotHoldsOwnOutcome ==
  evalState = "resolved" =>
    /\ \A i \in 1..NumItems : response.results[i] = ExpectedResult(i)
    /\ \A m \in Replies : \A i \in 1..NumItems : m.results[i] = ExpectedResult(i)

\* C2 witness: resolved with item 1 skipped in phase 1 and item 2 the first
\* of its bucket, so its slot differs from its bucket position, and sent.
C2_Witness ==
  /\ evalState = "resolved" /\ NumItems = 2 /\ Len(sent) = 1
  /\ ~Routed(batch.transactions, 1)
  /\ parCall[2] = "done" /\ cbOut[2] # NotCalled /\ ~cbOut[2].thrown

\* Items i and j are in the same Parallel bucket.
ParallelSiblings(i, j) ==
  /\ i # j
  /\ parCall[i] # "none" /\ parCall[j] # "none"
  /\ batch.transactions[i].sd.action = batch.transactions[j].sd.action

\* Item i's Parallel callback threw.
ThrewAt(i) == parCall[i] # "none" /\ cbOut[i] # NotCalled /\ cbOut[i].thrown

\* C3: a Parallel callback that throws gives its own item an error reply
\* with the failure's message, never rejects its promise (so evalDirected
\* does not reject because of it), and every sibling still gets the reply
\* mapped from its own outcome.
C3_ParallelThrowIsolated ==
  /\ \A i \in 1..NumItems : parCall[i] # "rejected"
  /\ \A i \in 1..NumItems :
       ThrewAt(i) =>
         /\ parCall[i] = "done"
         /\ reqResult[i] = ErrorResult(cbOut[i].msg)
         /\ evalState = "resolved" =>
              /\ response.results[i] = ErrorResult(cbOut[i].msg)
              /\ \A j \in 1..NumItems :
                   (ParallelSiblings(i, j) /\ ~ThrewAt(j)) =>
                     response.results[j] =
                       mapOutput(batch.transactions[j].sd, cbOut[j].result,
                                 cbOut[j].output, cbOut[j].error, cbOut[j].triggers,
                                 cbOut[j].extraUpdates, cbOut[j].customStage,
                                 cbOut[j].events)
  /\ evalState = "rejected" =>
       \E a \in ActionNames : ~actionMap[a].batchHandler /\ batCall[a] = "rejected"

\* C3 witness: evalDirected resolved a bucket of two where the first
\* callback threw and the second returned.
C3_Witness ==
  /\ evalState = "resolved" /\ NumItems = 2
  /\ ParallelSiblings(1, 2)
  /\ ThrewAt(1) /\ ~ThrewAt(2) /\ cbOut[2] # NotCalled

\* The batch callback of action a returned the wrong number of outcomes.
Miscounted(a) ==
  /\ batOut[a] # NotCalled
  /\ ~batOut[a].thrown
  /\ Len(batOut[a].results) # Len(Bucket(batch.transactions, a))

\* A rejection of evalDirected comes from a Batch action that has no batch
\* callback, and from nothing else.
RejectionIsMissingBatchCallback ==
  /\ \A i \in 1..NumItems : parCall[i] # "rejected"
  /\ \A a \in ActionNames : batCall[a] = "rejected" => ~actionMap[a].batchHandler
  /\ evalState = "rejected" => \E a \in ActionNames : batCall[a] = "rejected"

\* C4: when a Batch callback returns a number of outcomes different from
\* the number of items given, the batch promise is fulfilled (the mismatch
\* does not make evalDirected reject) and every item of the bucket gets the
\* same count-mismatch error, none of the returned outcomes.
C4_CountMismatchFailsWholeBucket ==
  /\ RejectionIsMissingBatchCallback
  /\ \A a \in ActionNames :
       Miscounted(a) =>
         LET bucket == Bucket(batch.transactions, a)
             err == ErrorResult(MsgCountMismatch(Len(batOut[a].results), Len(bucket)))
         IN /\ batCall[a] = "done"
            /\ \A j \in 1..Len(bucket) :
                 /\ reqResult[bucket[j]] = err
                 /\ evalState = "resolved" => response.results[bucket[j]] = err

\* C4 witness: a bucket of two answered with three outcomes, resolved.
C4_Witness ==
  /\ evalState = "resolved"
  /\ Len(Bucket(batch.transactions, "bat")) = 2
  /\ Miscounted("bat") /\ Len(batOut["bat"].results) = 3

\* C5: a request whose handler is unregistered or absent is answered with
\* a handle_transactions_result carrying its id and the error
\* "No transaction handler registered: <name>".
C5_UnknownHandlerIsAnswered ==
  (batch.handler \notin RegisteredHandlers /\ pc # "received" /\ canSend) =>
    \E m \in Replies :
      m.id = batch.id /\ m.error = MsgNoTransactionHandler(batch.handler)

\* evalDirected was called for the request (a registered directed handler).
Evaluated == pc # "received" /\ batch.handler \in RegisteredHandlers
\* handleTransactionsMessage answered from its catch block.
AnsweredFromCatch == pc = "replied" /\ evalState = "rejected"

RoutedToBatchWithoutCallback ==
  \E i \in 1..NumItems :
    /\ Routed(batch.transactions, i)
    /\ actionMap[batch.transactions[i].sd.action].invocationMode = BATCH
    /\ ~actionMap[batch.transactions[i].sd.action].batchHandler
RoutedToParallelWithoutCallback ==
  \E i \in 1..NumItems :
    /\ Routed(batch.transactions, i)
    /\ actionMap[batch.transactions[i].sd.action].invocationMode = PARALLEL
    /\ ~actionMap[batch.transactions[i].sd.action].handler

\* C26: evaluating a batch that contains an item for a Batch-mode action
\* with no batch callback makes evalDirected fail with the configuration
\* error; it never returns replies, and the request is answered from the
\* caller's catch block.
C26_MissingBatchCallbackRaises ==
  (Evaluated /\ RoutedToBatchWithoutCallback) =>
    /\ evalState # "resolved"
    /\ evalState = "rejected" => evalError = MsgBatchHandlerNotConfigured
    /\ pc = "replied" => evalState = "rejected"
C26_Witness ==
  /\ pc = "replied" /\ evalState = "rejected" /\ NumItems = 2
  /\ RoutedToBatchWithoutCallback
  /\ \E i \in 1..NumItems : parCall[i] = "done"

\* C27: evaluating a batch that contains an item for a Parallel-mode action
\* with no single-item callback raises a configuration error from
\* evalDirected; it is not reported as a per-item error reply.
C27_MissingParallelCallbackRaises ==
  (Evaluated /\ RoutedToParallelWithoutCallback) =>
    /\ evalState # "resolved"
    /\ \A i \in 1..NumItems : reqResult[i] # ErrorResult(MsgHandlerNotConfigured)

\* ------------------------------------------------ the connection manager
\* Sockets that may exist at once (accepted or dialled) and backOff runs
\* that may be in progress at once.
MaxSockets == 2
MaxLoops == 2
\* The count of entries into Connected saturates here.
MaxConnCount == 2

\* exponential-backoff's numOfAttempts when the options object is empty,
\* which `this.config.maxAttempts ? {...} : {}` selects for no maxAttempts.
DefaultNumOfAttempts == 10
\* `this.config.reconnectDelay || 1000`
DefaultReconnectDelay == 1000
\* `config.pingIntervalMs ?? 30000`, `config.pongTimeoutMs ?? 10000`
DefaultPingIntervalMs == 30000
DefaultPongTimeoutMs == 10000

OUTBOUND == "outbound"
INBOUND == "inbound"

SockIds == 1..MaxSockets
LoopIds == 1..MaxLoops

\* A WebSocket as the runtime sees it: readyState, whether it ever opened,
\* whether an 'error' event precedes its 'close' (aborted handshake), and
\* whether setupHeartbeat attached its pong listener.
\* Also: headers (the name/value pairs of the request that dialled it),
\* forced (terminate() was called on it), unanswered (ms since the
\* oldest ping sent on it that no pong has followed, -1 if none) and
\* ponged (a pong has arrived on it).
ClosedSock ==
  [st |-> "closed", est |-> FALSE, errPending |-> FALSE, hb |-> FALSE,
   forced |-> FALSE, unanswered |-> -1, ponged |-> FALSE, headers |-> {}]
\* One backOff run: "idle" (no run), "attempt" (awaiting the attempt's
\* promise) or "delay" (between attempts); n = attemptNumber; start = the
\* run start() awaits.
IdleLoop == [phase |-> "idle", n |-> 0, start |-> FALSE]

\* The registered handlers, per kind, in Map insertion order.
RegistrySamples ==
  { [tx |-> << >>, es |-> << >>, ep |-> << >>],
    [tx |-> <<"h1">>, es |-> <<"src1">>, ep |-> <<"proc1">>],
    [tx |-> <<"h1", "h2">>, es |-> << >>, ep |-> <<"h1">>] }

\* HandlerRuntimeConfig: maxAttempts and reconnectDelay are 0 when unset.
\* pingIntervalMs / pongTimeoutMs as configured, 0 standing for undefined.
HeartbeatSamples ==
  { [pingIntervalMs |-> 0, pongTimeoutMs |-> 0],
    [pingIntervalMs |-> 5000, pongTimeoutMs |-> 10000] }

\* authToken ("" when unset) and authHeaderName (<< >> when undefined).
NoAuth == [authToken |-> "", authHeaderName |-> << >>]
AuthSamples ==
  { [authToken |-> "test-token", authHeaderName |-> << >>],
    [authToken |-> "test-token", authHeaderName |-> <<"X-Custom">>],
    [authToken |-> "", authHeaderName |-> <<"X-Custom">>] }

\* Accept mode is sampled with one registry, a configured token with one
\* dialling configuration.
ConfigSamples ==
  [mode : {OUTBOUND}, maxAttempts : {0, 1, 2}, reconnectDelay : {0, 100},
   handlers : RegistrySamples, heartbeat : HeartbeatSamples, auth : {NoAuth}]
  \cup [mode : {OUTBOUND}, maxAttempts : {2}, reconnectDelay : {0},
        handlers : {[tx |-> <<"h1">>, es |-> <<"src1">>, ep |-> <<"proc1">>]},
        heartbeat : {[pingIntervalMs |-> 5000, pongTimeoutMs |-> 10000]},
        auth : AuthSamples]
  \cup [mode : {INBOUND}, maxAttempts : {0}, reconnectDelay : {0},
        handlers : {[tx |-> <<"h1", "h2">>, es |-> << >>, ep |-> <<"h1">>]},
        heartbeat : HeartbeatSamples, auth : {NoAuth}]

VARIABLES
  conn  \* the HandlerRuntime object, its sockets, backOff runs and timers:
        \*   config, ws, listening (wsServer accepts), isConnected,
        \*   shouldReconnect, reconnectRef (the run whose attempt promise
        \*   reconnectResolve/reconnectReject settle, 0 = undefined),
        \*   pingInterval, pongTimeout (timer armed), pingLeft, pongLeft
        \*   (ms until the armed timer fires), leakedInterval (an
        \*   interval overwritten without clearInterval still fires),
        \*   socks, loops, timers (delays of the pending reconnect timers),
        \*   start (the promise start() returned), stopped (stop() was
        \*   called), unhandled (a run nobody awaits rejected),
        \*   connCount (entries into Connected), regLog (the messages of the
        \*   latest registerProviderAndHandlers and the socket they went to)

\* submitAsyncTransactions calls made over a run.
MaxCalls == 2
CallIds == 1..MaxCalls

VARIABLES
  client,  \* the EngineClient: inflightRequests (the ids in the map),
           \*   calls (per submitAsyncTransactions call, numbered by the id
           \*   generateId gave it: the state of the promise it returned, its
           \*   result or error, wire = what became of its request message and
           \*   sock = the socket it was written to, activeRequestId = that
           \*   field of its request message, by = the inbound request whose
           \*   callback made it, 0 if not recorded), made (calls so far) and
           \*   unknown (the id in the latest 'Received response for unknown
           \*   request' warning, NoWarning if none was logged)
  inbox    \* a submit-transactions result frame the peer has sent and
           \*   onMessage has not handled yet (NoFrame if none)

VARIABLES
  mapping  \* one call of StageDirectorHelper.mapOutput: st ("idle", "called"
           \*   or "returned"), the directive sd and the outcome o it was
           \*   called with, and the reply it returned

\* Event requests handled over a run, and configs received per stream.
MaxRequests == 2
MaxConfigs == 2

VARIABLES
  inbound  \* the engine's event requests: configsSeen (per stream, the
           \*   config messages received), eventSourceConfigs (per stream,
           \*   the number of the config stored, 0 if none), confs (per
           \*   stream, the config the event source has cached, 0 if none),
           \*   requests (per request in order of arrival: st "none" /
           \*   "running" / "done", its kind, handler and streamId, called =
           \*   user code was invoked, config = the stored config passed to
           \*   a poll, conf = the config its poll function was called with)
           \*   and received (requests so far)

vars == <<evars, conn, client, inbox, mapping, inbound>>

ConnInit(cfg) ==
  [config |-> cfg, ws |-> 0, listening |-> FALSE, isConnected |-> FALSE,
   shouldReconnect |-> TRUE, reconnectRef |-> 0,
   pingInterval |-> FALSE, pongTimeout |-> FALSE, leakedInterval |-> FALSE,
   pingLeft |-> 0, pongLeft |-> 0,
   socks |-> [s \in SockIds |-> ClosedSock],
   loops |-> [l \in LoopIds |-> IdleLoop],
   timers |-> << >>,
   start |-> [st |-> "none", err |-> "", failures |-> 0],
   stopped |-> FALSE, unhandled |-> FALSE,
   connCount |-> 0,
   regLog |-> [sock |-> 0, msgs |-> << >>]]

\* backOff's numOfAttempts for connectWebSocket.
NumOfAttempts(cfg) ==
  IF cfg.maxAttempts # 0 THEN cfg.maxAttempts ELSE DefaultNumOfAttempts

\* onClose: `this.config.reconnectDelay || 1000`.
ReconnectDelay_Raw(cfg) == cfg.reconnectDelay

ReconnectDelay(cfg) ==
  IF cfg.reconnectDelay # 0 THEN cfg.reconnectDelay ELSE DefaultReconnectDelay

\* The attempt promise reconnectReject refers to is rejected with e: backOff
\* counts the attempt and retries after a delay, or gives up at the limit
\* and rejects (to start(), or to nobody).
RejectAttempt(c, e) ==
  IF c.reconnectRef = 0 THEN c
  ELSE LET l == c.reconnectRef
           n1 == c.loops[l].n + 1
       IN IF c.loops[l].phase # "attempt" THEN c
          ELSE IF n1 >= NumOfAttempts(c.config)
            THEN [c EXCEPT !.loops[l] = IdleLoop,
                           !.start = IF c.loops[l].start
                                       THEN [st |-> "rejected", err |-> e, failures |-> n1]
                                       ELSE @,
                           !.unhandled = @ \/ ~c.loops[l].start]
            ELSE [c EXCEPT !.loops[l].phase = "delay", !.loops[l].n = n1]

\* The attempt promise reconnectResolve refers to is resolved: backOff
\* returns, and start() with it if it awaits this run.
ResolveAttempt(c) ==
  IF c.reconnectRef = 0 THEN c
  ELSE LET l == c.reconnectRef
       IN IF c.loops[l].phase # "attempt" THEN c
          ELSE [c EXCEPT !.loops[l] = IdleLoop,
                         !.start = IF c.loops[l].start
                                     THEN [st |-> "resolved", err |-> "", failures |-> c.loops[l].n]
                                     ELSE @]

\* PING_INTERVAL_MS and PONG_TIMEOUT_MS as the constructor sets them.
PING_INTERVAL_MS(cfg) ==
  IF cfg.heartbeat.pingIntervalMs # 0 THEN cfg.heartbeat.pingIntervalMs
  ELSE DefaultPingIntervalMs
PONG_TIMEOUT_MS(cfg) ==
  IF cfg.heartbeat.pongTimeoutMs # 0 THEN cfg.heartbeat.pongTimeoutMs
  ELSE DefaultPongTimeoutMs

\* setupHeartbeat: a new interval replaces this.pingInterval (an armed one
\* is not cleared) and the pong listener goes on this.ws.
setupHeartbeat(c) ==
  IF c.ws = 0 THEN c
  ELSE [c EXCEPT !.leakedInterval = @ \/ c.pingInterval,
                 !.pingInterval = TRUE,
                 !.pingLeft = PING_INTERVAL_MS(c.config),
                 !.socks[c.ws].hb = TRUE]

cleanupHeartbeat(c) ==
  [c EXCEPT !.pingInterval = FALSE, !.pongTimeout = FALSE,
            !.pingLeft = 0, !.pongLeft = 0]

RegisterProvider == [messageType |-> "register_provider", handlerType |-> "", handler |-> ""]
RegisterHandler(name, kind) ==
  [messageType |-> "register_handler", handlerType |-> kind, handler |-> name]

\* registerProviderAndHandlers: the messages in the order they are sent.
RegistrationMessages_HandlersFirst(h) ==
  [i \in 1..Len(h.tx) |-> RegisterHandler(h.tx[i], "transaction_handler")]
  \o [i \in 1..Len(h.es) |-> RegisterHandler(h.es[i], "event_source")]
  \o [i \in 1..Len(h.ep) |-> RegisterHandler(h.ep[i], "event_processor")]
  \o <<RegisterProvider>>

RegistrationMessages(h) ==
  <<RegisterProvider>>
  \o [i \in 1..Len(h.tx) |-> RegisterHandler(h.tx[i], "transaction_handler")]
  \o [i \in 1..Len(h.es) |-> RegisterHandler(h.es[i], "event_source")]
  \o [i \in 1..Len(h.ep) |-> RegisterHandler(h.ep[i], "event_processor")]

\* registerProviderAndHandlers through sendMessage (sent only if this.ws
\* is set and isConnected).
registerProviderAndHandlers(c) ==
  IF c.ws # 0 /\ c.isConnected
    THEN [c EXCEPT !.regLog = [sock |-> c.ws, msgs |-> RegistrationMessages(c.config.handlers)]]
    ELSE [c EXCEPT !.regLog = [sock |-> 0, msgs |-> << >>]]

CountUp(n) == IF n < MaxConnCount THEN n + 1 ELSE n

onOpen(c) ==
  LET c1 == [c EXCEPT !.isConnected = TRUE, !.connCount = CountUp(@)]
      c2 == [ResolveAttempt(c1) EXCEPT !.reconnectRef = 0]
  IN registerProviderAndHandlers(setupHeartbeat(c2))

onError(c, e) == RejectAttempt(c, e)

onClose(c) ==
  LET c1 == cleanupHeartbeat([c EXCEPT !.isConnected = FALSE])
  IN IF c1.reconnectRef # 0
       THEN [RejectAttempt(c1, "WebSocket closed") EXCEPT !.reconnectRef = 0]
     ELSE IF c1.shouldReconnect
       THEN [c1 EXCEPT !.timers = Append(@, ReconnectDelay(c1.config))]
     ELSE c1

\* The slot of a new socket: any whose socket has closed (this.ws is
\* reassigned to the new socket whenever one is created).
FreeSocks(c) == {s \in SockIds : c.socks[s].st = "closed"}
NewSock(c) == CHOOSE s \in FreeSocks(c) : \A t \in FreeSocks(c) : s <= t
FreeLoops(c) == {l \in LoopIds : c.loops[l].phase = "idle"}
NewLoop(c) == CHOOSE l \in FreeLoops(c) : \A k \in FreeLoops(c) : l <= k

\* wsOptions.headers of connectWebSocket: the configured token goes under
\* `this.config.authHeaderName ?? 'Authorization'` (the sample configs set
\* no other header).
DialHeaders(cfg) ==
  IF cfg.auth.authToken # ""
    THEN {<<IF cfg.auth.authHeaderName # << >> THEN cfg.auth.authHeaderName[1]
                                               ELSE "Authorization",
            cfg.auth.authToken>>}
    ELSE {}

\* One attempt of connectWebSocket's backOff callback for run l: a new
\* socket becomes this.ws, the attempt's promise is the one the runtime's
\* reconnectResolve/reconnectReject settle.
DialAttempt(c, l) ==
  LET s == NewSock(c)
  IN [c EXCEPT !.socks[s] = [ClosedSock EXCEPT !.st = "connecting",
                                               !.headers = DialHeaders(c.config)],
               !.ws = s,
               !.reconnectRef = l,
               !.loops[l].phase = "attempt"]

\* connectWebSocket(): a new backOff run whose first attempt is not delayed.
connectWebSocket(c, awaited) ==
  LET l == NewLoop(c)
  IN DialAttempt([c EXCEPT !.loops[l] = [IdleLoop EXCEPT !.start = awaited]], l)

\* ws.close() and ws.terminate() as the runtime observes them: the socket
\* is closing and its 'close' follows; a socket still connecting also
\* emits 'error' first.
LocalClose(c) ==
  IF c.ws = 0 THEN c
  ELSE IF c.socks[c.ws].st = "open" THEN [c EXCEPT !.socks[c.ws].st = "closing"]
  ELSE IF c.socks[c.ws].st = "connecting"
    THEN [c EXCEPT !.socks[c.ws].st = "closing", !.socks[c.ws].errPending = TRUE]
  ELSE c

\* What start() has done when it first yields.
StartPromise_NotAwaited(mode) == "resolved"

StartPromise(mode) == IF mode = INBOUND THEN "resolved" ELSE "awaiting"

InitConn == conn \in {ConnInit(cfg) : cfg \in ConfigSamples}

\* start()
Start ==
  /\ conn.start.st = "none"
  /\ LET c1 == [conn EXCEPT !.start.st = StartPromise(conn.config.mode)]
     IN conn' = IF conn.config.mode = INBOUND
                  THEN [c1 EXCEPT !.shouldReconnect = FALSE, !.listening = TRUE]
                  ELSE connectWebSocket(c1, TRUE)

\* backOff's delay between two attempts of run l elapses.
Attempt(l) ==
  /\ conn.loops[l].phase = "delay"
  /\ FreeSocks(conn) # {}
  /\ conn' = DialAttempt(conn, l)

\* The reconnect timer set by onClose fires.
ReconnectTimerFires ==
  /\ conn.timers # << >>
  /\ FreeLoops(conn) # {} /\ FreeSocks(conn) # {}
  /\ conn' = connectWebSocket([conn EXCEPT !.timers = Tail(@)], FALSE)

\* The peer accepts a dialled socket: 'open'.
PeerAccepts(s) ==
  /\ conn.socks[s].st = "connecting"
  /\ conn' = onOpen([conn EXCEPT !.socks[s].st = "open", !.socks[s].est = TRUE])

\* A dialled socket fails its handshake: 'error' then 'close'.
AttemptFails(s) ==
  /\ conn.socks[s].st = "connecting"
  /\ conn' = onClose(onError([conn EXCEPT !.socks[s] = ClosedSock], "connect failed"))

\* The peer closes an open socket: 'close'.
PeerCloses(s) ==
  /\ conn.socks[s].st = "open"
  /\ conn' = onClose([conn EXCEPT !.socks[s] = ClosedSock])

\* An open socket fails: 'error', its 'close' follows.
SocketError(s) ==
  /\ conn.socks[s].st = "open"
  /\ conn' = onError([conn EXCEPT !.socks[s].st = "closing"], "socket error")

\* A socket closed or terminated locally, or failed, finishes closing.
CloseCompletes(s) ==
  /\ conn.socks[s].st = "closing"
  /\ LET c1 == [conn EXCEPT !.socks[s] = ClosedSock]
     IN conn' = IF conn.socks[s].errPending
                  THEN onClose(onError(c1, "closed before the connection was established"))
                  ELSE onClose(c1)

\* Accept mode: the peer connects to the listener ('connection').
\* C29 mutant: a connection accepted while the session's socket is open
\* is set up but does not replace it.
PeerConnects_KeepsLiveSession ==
  /\ conn.listening
  /\ FreeSocks(conn) # {}
  /\ LET s == NewSock(conn)
         live == conn.ws # 0 /\ conn.socks[conn.ws].st = "open"
         c1 == [conn EXCEPT !.socks[s] = [ClosedSock EXCEPT !.st = "open", !.est = TRUE],
                            !.ws = IF live THEN @ ELSE s,
                            !.isConnected = TRUE,
                            !.connCount = CountUp(@)]
     IN conn' = registerProviderAndHandlers(setupHeartbeat(c1))

PeerConnects ==
  /\ conn.listening
  /\ FreeSocks(conn) # {}
  /\ LET s == NewSock(conn)
         c1 == [conn EXCEPT !.socks[s] = [ClosedSock EXCEPT !.st = "open", !.est = TRUE],
                            !.ws = s,
                            !.isConnected = TRUE,
                            !.connCount = CountUp(@)]
     IN conn' = registerProviderAndHandlers(setupHeartbeat(c1))

\* stop()
Stop ==
  /\ conn.start.st # "none"
  /\ ~conn.stopped
  /\ LET c1 == cleanupHeartbeat([conn EXCEPT !.shouldReconnect = FALSE, !.stopped = TRUE])
     IN conn' = [LocalClose(c1) EXCEPT !.listening = FALSE]

\* this.ws?.terminate()
Terminate(c) ==
  IF c.ws = 0 \/ c.socks[c.ws].st \notin {"open", "connecting"} THEN c
  ELSE [LocalClose(c) EXCEPT !.socks[c.ws].forced = TRUE]

\* The body of the interval callback: if the runtime is connected a ping
\* goes out on this.ws and the pong timeout is cleared and armed anew.
PingCallback(c) ==
  IF c.ws # 0 /\ c.socks[c.ws].st = "open" /\ c.isConnected
    THEN [c EXCEPT !.socks[c.ws].unanswered = IF @ < 0 THEN 0 ELSE @,
                   !.pongTimeout = TRUE,
                   !.pongLeft = PONG_TIMEOUT_MS(c.config)]
    ELSE c

\* The ping interval fires.
PingTick ==
  /\ conn.pingInterval /\ conn.pingLeft = 0
  /\ conn' = PingCallback([conn EXCEPT !.pingLeft = PING_INTERVAL_MS(conn.config)])

\* An interval that setupHeartbeat replaced without clearing fires (its
\* phase is not that of the current interval).
LeakedPingTick ==
  /\ conn.leakedInterval
  /\ conn' = PingCallback(conn)
  /\ conn' # conn

\* The peer answers the pings sent on socket s: 'pong'.
PongArrives(s) ==
  /\ conn.socks[s].st = "open" /\ conn.socks[s].hb
  /\ conn.socks[s].unanswered >= 0
  /\ conn' = [conn EXCEPT !.socks[s].unanswered = -1,
                          !.socks[s].ponged = TRUE,
                          !.pongTimeout = FALSE, !.pongLeft = 0]

\* The pong timeout fires: this.ws?.terminate().
PongTimeoutFires ==
  /\ conn.pongTimeout /\ conn.pongLeft = 0
  /\ conn' = Terminate([conn EXCEPT !.pongTimeout = FALSE])

\* The ages of unanswered pings stop growing here.
AgeCap(cfg) == PING_INTERVAL_MS(cfg) + PONG_TIMEOUT_MS(cfg)
Min(a, b) == IF a <= b THEN a ELSE b
\* The time to the next heartbeat timer.
NextTimer(c) ==
  IF c.pingInterval /\ c.pongTimeout THEN Min(c.pingLeft, c.pongLeft)
  ELSE IF c.pingInterval THEN c.pingLeft
  ELSE c.pongLeft

\* Time passes up to the next heartbeat timer; no armed timer is overdue.
TimePasses ==
  /\ conn.pingInterval \/ conn.pongTimeout
  /\ NextTimer(conn) > 0
  /\ LET d == NextTimer(conn)
     IN conn' = [conn EXCEPT
          !.pingLeft = IF conn.pingInterval THEN @ - d ELSE @,
          !.pongLeft = IF conn.pongTimeout THEN @ - d ELSE @,
          !.socks = [s \in SockIds |->
                       IF conn.socks[s].st = "open" /\ conn.socks[s].unanswered >= 0
                         THEN [conn.socks[s] EXCEPT
                                 !.unanswered = Min(@ + d, AgeCap(conn.config))]
                         ELSE conn.socks[s]]]

\* ------------------------------------------------- the request correlator
MsgSDKEngineNotConnected == "KA140627"
MsgSDKEngineReqNoActiveRequest == "KA140616"

NoWarning == -1
NoCall ==
  [st |-> "none", result |-> << >>, error |-> "", wire |-> "", sock |-> 0,
   activeRequestId |-> "", by |-> 0]
ClientInit ==
  [inflightRequests |-> {}, calls |-> [k \in CallIds |-> NoCall],
   made |-> 0, unknown |-> NoWarning]

\* WSEngineAPISubmitTransactionsResult bodies: error is "" when the frame
\* has none (message.error is tested for truthiness), submissions may be
\* missing.
ReplySamples ==
  { [error |-> "", hasSubmissions |-> TRUE, submissions |-> <<"tx-1">>],
    [error |-> "", hasSubmissions |-> FALSE, submissions |-> << >>],
    [error |-> "boom", hasSubmissions |-> FALSE, submissions |-> << >>] }
\* The ids a frame may carry: those of the calls and one nobody was given.
UnknownId == 0
ReplyIds == CallIds \cup {UnknownId}
NoFrame == [id |-> -1, sock |-> 0, body |-> [error |-> "", hasSubmissions |-> FALSE, submissions |-> << >>]]

\* isWebSocketConnected()
isWebSocketConnected(c) ==
  c.isConnected /\ c.ws # 0 /\ c.socks[c.ws].st = "open"

\* The request message of a call as sendMessage leaves it.
Written(c) ==
  IF c.ws # 0 /\ c.isConnected
    THEN [NoCall EXCEPT !.st = "pending", !.wire = "sent", !.sock = c.ws]
    ELSE [NoCall EXCEPT !.st = "pending"]

\* roundTrip: the promise's settlers go into inflightRequests, then the
\* request goes out through sendMessage.
roundTrip_FixedId(cl, c, id) ==
  [cl EXCEPT !.inflightRequests = @ \cup {1}, !.calls[1] = Written(c)]

roundTrip(cl, c, id) ==
  [cl EXCEPT !.inflightRequests = @ \cup {id}, !.calls[id] = Written(c)]

\* submitAsyncTransactions with the runtime in state c and active context ctx.
submitAsyncTransactions_NoChecks(cl, c, ctx) ==
  roundTrip([cl EXCEPT !.made = @ + 1], c, cl.made + 1)

submitAsyncTransactions(cl, c, ctx) ==
  LET id == cl.made + 1
      cl1 == [cl EXCEPT !.made = id]
  IN IF ~isWebSocketConnected(c)
       THEN [cl1 EXCEPT !.calls[id] = [NoCall EXCEPT !.st = "threw", !.error = MsgSDKEngineNotConnected]]
     ELSE IF ctx = NoValue
       THEN [cl1 EXCEPT !.calls[id] = [NoCall EXCEPT !.st = "threw", !.error = MsgSDKEngineReqNoActiveRequest]]
     ELSE [roundTrip(cl1, c, id) EXCEPT !.calls[id].activeRequestId = ctx[1]]

\* The settlement handleResponse gives the promise of a call.
Settled(call, body) ==
  IF call.st # "pending" THEN call
  ELSE IF body.error # ""
    THEN [call EXCEPT !.st = "rejected", !.error = body.error]
    ELSE [call EXCEPT !.st = "resolved",
                      !.result = IF body.hasSubmissions THEN body.submissions ELSE << >>]

\* handleResponse
handleResponse_KeepInflight(cl, message) ==
  IF message.id \in cl.inflightRequests
    THEN [cl EXCEPT !.calls[message.id] =
            Settled([@ EXCEPT !.st = "pending"], message.body)]
    ELSE [cl EXCEPT !.unknown = message.id]

handleResponse_UnknownDropsAll(cl, message) ==
  IF message.id \in cl.inflightRequests
    THEN [cl EXCEPT !.inflightRequests = @ \ {message.id},
                    !.calls[message.id] = Settled(@, message.body)]
    ELSE [cl EXCEPT !.unknown = message.id, !.inflightRequests = {}]

handleResponse(cl, message) ==
  IF message.id \in cl.inflightRequests
    THEN [cl EXCEPT !.inflightRequests = @ \ {message.id},
                    !.calls[message.id] = Settled(@, message.body)]
    ELSE [cl EXCEPT !.unknown = message.id]

\* What a step of the connection leaves of the requests in flight: the
\* request of a call written to a socket whose 'close' the step handles is
\* lost with the connection (by the heartbeat's terminate() if it was
\* forced), and so is a frame the peer sent on it.
Orphaned(cl, c, c2) ==
  [cl EXCEPT !.calls = [k \in CallIds |->
     IF /\ cl.calls[k].wire = "sent"
        /\ c.socks[cl.calls[k].sock].st # "closed"
        /\ c2.socks[cl.calls[k].sock].st = "closed"
       THEN [cl.calls[k] EXCEPT !.wire = IF c.socks[cl.calls[k].sock].forced
                                           THEN "heartbeat" ELSE "closed",
                                !.sock = 0]
       ELSE cl.calls[k]]]
Undelivered(fr, c, c2) ==
  IF fr.sock # 0 /\ c.socks[fr.sock].st # "closed" /\ c2.socks[fr.sock].st = "closed"
    THEN NoFrame ELSE fr
ConnFrame ==
  /\ UNCHANGED evars
  /\ client' = Orphaned(client, conn, conn')
  /\ inbox' = Undelivered(inbox, conn, conn')
  /\ UNCHANGED <<mapping, inbound>>

\* handleTransactionsMessage and its like set the active context before
\* the callback and clear it after (setActiveHandlerContext /
\* clearActiveHandlerContext); a callback starts on a message, so on an
\* open socket.
HandlerBegins ==
  /\ activeHandlerContext = NoValue
  /\ \E s \in SockIds : conn.socks[s].st = "open"
  /\ activeHandlerContext' = <<"req-1">>
  /\ UNCHANGED <<batch, pc, response, reqResult, parCall, cbOut, batCall, batOut,
                 evalState, evalError, canSend, sent, warned>>
  /\ UNCHANGED <<conn, client, inbox, mapping, inbound>>

HandlerEnds ==
  /\ activeHandlerContext # NoValue
  /\ activeHandlerContext' = NoValue
  /\ UNCHANGED <<batch, pc, response, reqResult, parCall, cbOut, batCall, batOut,
                 evalState, evalError, canSend, sent, warned>>
  /\ UNCHANGED <<conn, client, inbox, mapping, inbound>>

\* A caller holding the EngineAPI calls submitAsyncTransactions.
SubmitAsyncTransactions ==
  /\ client.made < MaxCalls
  /\ client' = submitAsyncTransactions(client, conn, activeHandlerContext)
  /\ UNCHANGED <<evars, conn, inbox, mapping, inbound>>

\* The peer sends a submit-transactions result frame on an open socket.
PeerReplies(s, id, body) ==
  /\ inbox = NoFrame
  /\ conn.socks[s].st = "open"
  /\ inbox' = [id |-> id, sock |-> s, body |-> body]
  /\ UNCHANGED <<evars, conn, client, mapping, inbound>>

\* onMessage -> handleMessage -> engineClient.handleResponse
HandleResponse ==
  /\ inbox # NoFrame
  /\ client' = handleResponse(client, inbox)
  /\ inbox' = NoFrame
  /\ UNCHANGED <<evars, conn, mapping, inbound>>

\* ------------------------------------------------------ mapOutput alone
\* The directives and outcomes mapOutput is called with: every falsy /
\* non-empty combination of the three directive strings, the five results,
\* and each optional argument present or not.
DirectiveSamples ==
  { Directive("par", p, n, f) :
      p \in {"", "/output"}, n \in {"", "end"}, f \in {"", "failed"} }
EvalResults == {COMPLETE, HARD_FAILURE, WAITING, FIXABLE_ERROR, TRANSIENT_ERROR}
ResultSamples ==
  { Outcome(r, out, err, tr, ex, cs, ev) :
      r \in EvalResults, out \in {NoValue, <<"x", "1">>},
      err \in {NoValue, <<"boom">>}, tr \in {<< >>, <<"trig">>},
      ex \in {<< >>, <<AddOp("/extra", <<"e">>)>>}, cs \in {"", "custom"},
      ev \in {<< >>, <<"ev1", "ev2">>} }

NoMapping ==
  [st |-> "idle", sd |-> Directive("", "", "", ""),
   o |-> Outcome(WAITING, NoValue, NoValue, << >>, << >>, "", << >>),
   reply |-> EmptyReplyResult]
MapOutputCall(sd, o) == [st |-> "called", sd |-> sd, o |-> o, reply |-> EmptyReplyResult]

\* C17 mutant: the directive's nextStage wins over the override stage.
MapOutputReturns_NextStageOverCustom ==
  /\ mapping.st = "called"
  /\ LET r == mapOutput(mapping.sd, mapping.o.result, mapping.o.output,
                        mapping.o.error, mapping.o.triggers,
                        mapping.o.extraUpdates, mapping.o.customStage,
                        mapping.o.events)
     IN mapping' = [mapping EXCEPT !.st = "returned",
                      !.reply = IF mapping.o.result = COMPLETE /\ r.stage # NoStage
                                   /\ mapping.sd.nextStage # ""
                                  THEN [r EXCEPT !.stage = mapping.sd.nextStage]
                                  ELSE r]
  /\ UNCHANGED <<evars, conn, client, inbox, inbound>>
\* C18 mutant: COMPLETE without a next stage stays in the stage, as WAITING does.
MapOutputReturns_MissingNextStageWaits ==
  /\ mapping.st = "called"
  /\ LET r == mapOutput(mapping.sd, mapping.o.result, mapping.o.output,
                        mapping.o.error, mapping.o.triggers,
                        mapping.o.extraUpdates, mapping.o.customStage,
                        mapping.o.events)
     IN mapping' = [mapping EXCEPT !.st = "returned",
                      !.reply = IF r = ErrorResult(MsgNextStageMissing)
                                  THEN EmptyReplyResult ELSE r]
  /\ UNCHANGED <<evars, conn, client, inbox, inbound>>
\* C19 mutant: the supplied error goes on the reply, not into the state.
MapOutputReturns_ErrorOnReply ==
  /\ mapping.st = "called"
  /\ LET r == mapOutput(mapping.sd, mapping.o.result, mapping.o.output,
                        mapping.o.error, mapping.o.triggers,
                        mapping.o.extraUpdates, mapping.o.customStage,
                        mapping.o.events)
     IN mapping' = [mapping EXCEPT !.st = "returned",
                      !.reply = IF mapping.o.result = HARD_FAILURE /\ r.stage # NoStage
                                   /\ mapping.o.error # NoValue
                                  THEN [r EXCEPT !.error = mapping.o.error,
                                                 !.stateUpdates =
                                                   SubSeq(@, 1, Len(@) - 1)]
                                  ELSE r]
  /\ UNCHANGED <<evars, conn, client, inbox, inbound>>
\* C20 mutant: without a failure stage only a supplied error is reported.
MapOutputReturns_OnlySuppliedError ==
  /\ mapping.st = "called"
  /\ LET r == mapOutput(mapping.sd, mapping.o.result, mapping.o.output,
                        mapping.o.error, mapping.o.triggers,
                        mapping.o.extraUpdates, mapping.o.customStage,
                        mapping.o.events)
     IN mapping' = [mapping EXCEPT !.st = "returned",
                      !.reply = IF mapping.o.result = HARD_FAILURE /\ r.stage = NoStage
                                  THEN [r EXCEPT !.error = mapping.o.error]
                                  ELSE r]
  /\ UNCHANGED <<evars, conn, client, inbox, inbound>>

\* C21 mutant: WAITING moves to the override stage when there is one.
MapOutputReturns_WaitingTakesOverride ==
  /\ mapping.st = "called"
  /\ LET r == mapOutput(mapping.sd, mapping.o.result, mapping.o.output,
                        mapping.o.error, mapping.o.triggers,
                        mapping.o.extraUpdates, mapping.o.customStage,
                        mapping.o.events)
     IN mapping' = [mapping EXCEPT !.st = "returned",
                      !.reply = IF mapping.o.result = WAITING
                                  THEN [r EXCEPT !.stage = mapping.o.customStage]
                                  ELSE r]
  /\ UNCHANGED <<evars, conn, client, inbox, inbound>>
\* mapOutput runs to its return statement.
MapOutputReturns ==
  /\ mapping.st = "called"
  /\ mapping' = [mapping EXCEPT !.st = "returned",
                   !.reply = mapOutput(mapping.sd, mapping.o.result,
                                       mapping.o.output, mapping.o.error,
                                       mapping.o.triggers, mapping.o.extraUpdates,
                                       mapping.o.customStage, mapping.o.events)]
  /\ UNCHANGED <<evars, conn, client, inbox, inbound>>

\* ------------------------------------------- event requests of the engine
\* The eventSources and eventProcessors maps of the runtime, the names and
\* streams the engine's requests carry, and the four request kinds that
\* are answered with a result message.
eventSources == {"src1"}
eventProcessors == {"proc1"}
StreamIds == {"s1", "s2"}
\* The requests of the engine: each kind for a registered and an unknown
\* name, a poll also for a name registered as a processor only; batch and
\* validate requests carry no stream.
EventRequestSamples ==
  { [kind |-> "event_processor_batch", handler |-> "proc1", streamId |-> ""],
    [kind |-> "event_processor_batch", handler |-> "ghost", streamId |-> ""],
    [kind |-> "event_source_validate_config", handler |-> "src1", streamId |-> ""],
    [kind |-> "event_source_validate_config", handler |-> "ghost", streamId |-> ""],
    [kind |-> "event_source_poll", handler |-> "src1", streamId |-> "s1"],
    [kind |-> "event_source_poll", handler |-> "src1", streamId |-> "s2"],
    [kind |-> "event_source_poll", handler |-> "proc1", streamId |-> "s1"],
    [kind |-> "event_source_poll", handler |-> "ghost", streamId |-> "s1"],
    [kind |-> "event_source_delete", handler |-> "src1", streamId |-> "s1"],
    [kind |-> "event_source_delete", handler |-> "ghost", streamId |-> "s1"] }

\* Request n of the run: its id, and its record before it arrives.
RequestId(n) == "evt-" \o ToString(n)
InboundInit ==
  [eventSourceConfigs |-> [s \in StreamIds |-> 0],
   configsSeen |-> [s \in StreamIds |-> 0],
   confs |-> [s \in StreamIds |-> 0],
   requests |-> [n \in 1..MaxRequests |->
                   [st |-> "none", kind |-> "", handler |-> "", streamId |-> "",
                    called |-> FALSE, config |-> 0, conf |-> 0]],
   received |-> 0]

\* The response object of a handler: the result type of the request kind,
\* the request's id and handler, and the error (Absent if none is set).
EventResponse(kind, n, handler, error) ==
  [messageType |-> kind \o "_result", id |-> RequestId(n), handler |-> handler,
   error |-> error]

\* C28 mutant: poll looks up the source only.
Serves_SourceOnly(inb, kind, handler, streamId) ==
  IF kind = "event_processor_batch" THEN handler \in eventProcessors
  ELSE handler \in eventSources

\* The test each handler makes before it calls user code: the processor or
\* source is registered and, for poll, a config is stored for the stream.
Serves(inb, kind, handler, streamId) ==
  CASE kind = "event_processor_batch" -> handler \in eventProcessors
    [] kind = "event_source_poll" ->
         handler \in eventSources /\ inb.eventSourceConfigs[streamId] # 0
    [] OTHER -> handler \in eventSources

\* The else branch of each handler: response.error.
NotServedError(kind, handler, streamId) ==
  CASE kind = "event_processor_batch" -> <<"No event processor registered", handler>>
    [] kind = "event_source_poll" -> <<"No event source or config", handler, streamId>>
    [] OTHER -> <<"No event source registered", handler>>

\* sendMessage of a handler envelope.
sendEnvelope(m) ==
  IF canSend
    THEN /\ sent' = Append(sent, m)
         /\ UNCHANGED warned
    ELSE /\ warned' = TRUE
         /\ UNCHANGED sent

\* handleEventSourceConfig: the config received last is stored for the
\* stream (numbered per stream in order of arrival).
EventSourceConfigArrives(s) ==
  /\ canSend
  /\ inbound.configsSeen[s] < MaxConfigs
  /\ inbound' = [inbound EXCEPT !.configsSeen[s] = @ + 1,
                                !.eventSourceConfigs[s] = inbound.configsSeen[s] + 1]
  /\ UNCHANGED <<evars, conn, client, inbox, mapping>>

\* EventSourceBase.eventSourcePoll up to the call of the poll function: the
\* config cached for the stream, or else the one it is given, which it
\* caches (the awaits before the poll function are on settled promises for
\* a source without a config parser, so no message is handled in between).
PollConf(inb, streamId) ==
  IF inb.confs[streamId] # 0 THEN inb.confs[streamId]
  ELSE inb.eventSourceConfigs[streamId]

\* handleEventProcessorBatch / handleEventSourcePoll /
\* handleEventSourceValidateConfig / handleEventSourceDelete up to the
\* first await: with the handler (and config) found, the context is set and
\* user code is called; otherwise the else branch, the finally block and
\* sendMessage run at once.
EventRequestArrives(kind, handler, streamId) ==
  /\ canSend
  /\ inbound.received < MaxRequests
  /\ LET n == inbound.received + 1
         poll == kind = "event_source_poll"
         req == [st |-> "running", kind |-> kind, handler |-> handler,
                 streamId |-> streamId, called |-> TRUE,
                 config |-> IF poll THEN inbound.eventSourceConfigs[streamId] ELSE 0,
                 conf |-> IF poll THEN PollConf(inbound, streamId) ELSE 0]
     IN IF Serves(inbound, kind, handler, streamId)
          THEN /\ inbound' =
                    IF poll
                      THEN [inbound EXCEPT !.received = n, !.requests[n] = req,
                                           !.confs[streamId] = req.conf]
                      ELSE [inbound EXCEPT !.received = n, !.requests[n] = req]
               /\ activeHandlerContext' = <<RequestId(n)>>
               /\ UNCHANGED <<sent, warned>>
          ELSE /\ inbound' = [inbound EXCEPT !.received = n,
                                !.requests[n] = [req EXCEPT !.st = "done",
                                                            !.called = FALSE,
                                                            !.config = 0,
                                                            !.conf = 0]]
               /\ activeHandlerContext' = NoValue
               /\ sendEnvelope(EventResponse(kind, n, handler,
                                             NotServedError(kind, handler, streamId)))
  /\ UNCHANGED <<batch, pc, response, reqResult, parCall, cbOut, batCall, batOut,
                 evalState, evalError, canSend>>
  /\ UNCHANGED <<conn, client, inbox, mapping>>

\* What the user code of a request did: it returned, it threw (the catch
\* block of the runtime sets response.error), or the function it wraps
\* failed and it set response.error itself, as an EventSourceBase does.
UserOutcomes == {"returned", "threw", "failed"}

\* C34 mutant: the context is cleared after the await, not in a finally
\* block, so a throw leaves it set.
UserCodeSettles_ClearOnReturnOnly(n, outcome) ==
  /\ inbound.requests[n].st = "running"
  /\ LET req == inbound.requests[n]
         s == req.streamId
     IN /\ inbound' =
             IF req.kind = "event_source_delete" /\ outcome = "returned"
               THEN [inbound EXCEPT !.requests[n].st = "done",
                                    !.confs[s] = 0,
                                    !.eventSourceConfigs[s] = 0]
             ELSE IF req.kind = "event_source_delete" /\ outcome = "failed"
               THEN [inbound EXCEPT !.requests[n].st = "done",
                                    !.eventSourceConfigs[s] = 0]
             ELSE [inbound EXCEPT !.requests[n].st = "done"]
        /\ sendEnvelope(EventResponse(req.kind, n, req.handler,
                                      IF outcome = "returned" THEN Absent
                                      ELSE <<"user code failed">>))
  /\ activeHandlerContext' = IF outcome = "threw" THEN activeHandlerContext ELSE NoValue
  /\ UNCHANGED <<batch, pc, response, reqResult, parCall, cbOut, batCall, batOut,
                 evalState, evalError, canSend>>
  /\ UNCHANGED <<conn, client, inbox, mapping>>

\* The user code of request n settles, the finally block clears the
\* context and the response is sent. A delete that did not throw drops the
\* stream's config; the source drops its cached conf unless its delete
\* function failed.
UserCodeSettles(n, outcome) ==
  /\ inbound.requests[n].st = "running"
  /\ LET req == inbound.requests[n]
         s == req.streamId
     IN /\ inbound' =
             IF req.kind = "event_source_delete" /\ outcome = "returned"
               THEN [inbound EXCEPT !.requests[n].st = "done",
                                    !.confs[s] = 0,
                                    !.eventSourceConfigs[s] = 0]
             ELSE IF req.kind = "event_source_delete" /\ outcome = "failed"
               THEN [inbound EXCEPT !.requests[n].st = "done",
                                    !.eventSourceConfigs[s] = 0]
             ELSE [inbound EXCEPT !.requests[n].st = "done"]
        /\ sendEnvelope(EventResponse(req.kind, n, req.handler,
                                      IF outcome = "returned" THEN Absent
                                      ELSE <<"user code failed">>))
  /\ activeHandlerContext' = NoValue
  /\ UNCHANGED <<batch, pc, response, reqResult, parCall, cbOut, batCall, batOut,
                 evalState, evalError, canSend>>
  /\ UNCHANGED <<conn, client, inbox, mapping>>

\* The connection as the handlers above see it: canSend stands for
\* `this.ws && this.isConnected` on the socket that delivered the requests.
Connection ==
  [conn EXCEPT
     !.ws = 1, !.isConnected = canSend,
     !.socks[1].st = IF canSend THEN "open" ELSE "closed"]

\* The user code of request n, in progress, calls submitAsyncTransactions
\* on the EngineAPI it was given.
UserCodeSubmits(n) ==
  /\ inbound.requests[n].st = "running"
  /\ client.made < MaxCalls
  /\ client' = [submitAsyncTransactions(client, Connection, activeHandlerContext)
                  EXCEPT !.calls[client.made + 1].by = n]
  /\ UNCHANGED <<evars, conn, inbox, mapping, inbound>>

\* ------------------------------------------------------ specifications
\* The runtime handling one handle_transactions message.
Init ==
  /\ InitEval
  /\ conn = ConnInit(CHOOSE cfg \in ConfigSamples : cfg.mode = INBOUND)
  /\ client = ClientInit /\ inbox = NoFrame
  /\ mapping = NoMapping
  /\ inbound = InboundInit
Next ==
  \/ HandleNoHandlerField /\ UNCHANGED <<conn, client, inbox, mapping, inbound>>
  \/ HandleUnregistered /\ UNCHANGED <<conn, client, inbox, mapping, inbound>>
  \/ HandleRegistered /\ UNCHANGED <<conn, client, inbox, mapping, inbound>>
  \/ \E i \in 1..NumItems, o \in CallbackOutcomes : ParallelSettle(i, o) /\ UNCHANGED <<conn, client, inbox, mapping, inbound>>
  \/ /\ \E a \in ActionNames : \E ret \in BatchReturns(Len(Bucket(batch.transactions, a))) :
          BatchSettle(a, ret)
     /\ UNCHANGED <<conn, client, inbox, mapping, inbound>>
  \/ EvalResolve /\ UNCHANGED <<conn, client, inbox, mapping, inbound>>
  \/ EvalReject /\ UNCHANGED <<conn, client, inbox, mapping, inbound>>
  \/ ReplyAfterResolve /\ UNCHANGED <<conn, client, inbox, mapping, inbound>>
  \/ ReplyAfterReject /\ UNCHANGED <<conn, client, inbox, mapping, inbound>>
  \/ ConnectionLost /\ UNCHANGED <<conn, client, inbox, mapping, inbound>>
Spec == Init /\ [][Next]_vars

\* The runtime's connection over its life.
NextConn ==
  \/ Start /\ ConnFrame
  \/ \E l \in LoopIds : Attempt(l) /\ ConnFrame
  \/ ReconnectTimerFires /\ ConnFrame
  \/ \E s \in SockIds : PeerAccepts(s) /\ ConnFrame
  \/ \E s \in SockIds : AttemptFails(s) /\ ConnFrame
  \/ \E s \in SockIds : PeerCloses(s) /\ ConnFrame
  \/ \E s \in SockIds : SocketError(s) /\ ConnFrame
  \/ \E s \in SockIds : CloseCompletes(s) /\ ConnFrame
  \/ PeerConnects /\ ConnFrame
  \/ Stop /\ ConnFrame
  \/ PingTick /\ ConnFrame
  \/ LeakedPingTick /\ ConnFrame
  \/ TimePasses /\ ConnFrame
  \/ \E s \in SockIds : PongArrives(s) /\ ConnFrame
  \/ PongTimeoutFires /\ ConnFrame
InitConnOnly ==
  /\ InitEval
  /\ batch = [id |-> "req-1", handler |-> "directed", transactions |-> << >>]
  /\ InitConn
  /\ client = ClientInit /\ inbox = NoFrame
  /\ mapping = NoMapping
  /\ inbound = InboundInit
SpecConn == InitConnOnly /\ [][NextConn]_vars

\* The request correlator over the life of one connection of a dialling
\* runtime, which the peer closes or the heartbeat terminates.
CallsConfig ==
  [mode |-> OUTBOUND, maxAttempts |-> 1, reconnectDelay |-> 0,
   handlers |-> [tx |-> <<"h1">>, es |-> << >>, ep |-> << >>],
   heartbeat |-> [pingIntervalMs |-> 0, pongTimeoutMs |-> 0],
   auth |-> NoAuth]
InitCalls ==
  /\ InitEval
  /\ batch = [id |-> "req-1", handler |-> "directed", transactions |-> << >>]
  /\ conn = ConnInit(CallsConfig)
  /\ client = ClientInit /\ inbox = NoFrame
  /\ mapping = NoMapping
  /\ inbound = InboundInit
NextCalls ==
  \/ Start /\ ConnFrame
  \/ \E s \in SockIds : PeerAccepts(s) /\ ConnFrame
  \/ \E s \in SockIds : PeerCloses(s) /\ ConnFrame
  \/ \E s \in SockIds : CloseCompletes(s) /\ ConnFrame
  \/ PingTick /\ ConnFrame
  \/ TimePasses /\ ConnFrame
  \/ PongTimeoutFires /\ ConnFrame
  \/ HandlerBegins
  \/ HandlerEnds
  \/ SubmitAsyncTransactions
  \/ \E s \in SockIds, id \in ReplyIds, body \in ReplySamples : PeerReplies(s, id, body)
  \/ HandleResponse
SpecCalls == InitCalls /\ [][NextCalls]_vars

\* One call of mapOutput, on any directive and any outcome of the samples.
InitMap ==
  /\ InitEval
  /\ batch = [id |-> "req-1", handler |-> "directed", transactions |-> << >>]
  /\ conn = ConnInit(CallsConfig)
  /\ client = ClientInit /\ inbox = NoFrame
  /\ mapping \in {MapOutputCall(sd, o) : sd \in DirectiveSamples, o \in ResultSamples}
  /\ inbound = InboundInit
NextMap ==
  \/ MapOutputReturns
SpecMap == InitMap /\ [][NextMap]_vars

\* The runtime handling the engine's event requests, several at a time.
InitInbound ==
  /\ InitEval
  /\ batch = [id |-> "req-1", handler |-> "directed", transactions |-> << >>]
  /\ conn = ConnInit(CallsConfig)
  /\ client = ClientInit /\ inbox = NoFrame
  /\ mapping = NoMapping
  /\ inbound = InboundInit
NextInbound ==
  \/ \E s \in StreamIds : EventSourceConfigArrives(s)
  \/ \E r \in EventRequestSamples : EventRequestArrives(r.kind, r.handler, r.streamId)
  \/ \E n \in 1..MaxRequests, o \in UserOutcomes : UserCodeSettles(n, o)
  \/ ConnectionLost /\ UNCHANGED <<conn, client, inbox, mapping, inbound>>
SpecInbound == InitInbound /\ [][NextInbound]_vars

\* Event processor batches handled several at a time, whose user code
\* makes round-trip calls.
NextContext ==
  \/ \E r \in {q \in EventRequestSamples : q.kind = "event_processor_batch"} :
       EventRequestArrives(r.kind, r.handler, r.streamId)
  \/ \E n \in 1..MaxRequests, o \in UserOutcomes : UserCodeSettles(n, o)
  \/ \E n \in 1..MaxRequests : UserCodeSubmits(n)
  \/ ConnectionLost /\ UNCHANGED <<conn, client, inbox, mapping, inbound>>
SpecContext == InitInbound /\ [][NextContext]_vars

\* ------------------------------------------------ connection claims
ActiveLoops(c) == {l \in LoopIds : c.loops[l].phase # "idle"}
LiveSocks(c) == {s \in SockIds : c.socks[s].st \in {"connecting", "open"}}
\* Socket s opens, or is dialled, in this step.
Opens(s) == conn.socks[s].st # "open" /\ conn'.socks[s].st = "open"
Dialled(s) == conn.socks[s].st # "connecting" /\ conn'.socks[s].st = "connecting"
\* The 'close' of a socket that had opened is handled in this step.
EstablishedLost(s) ==
  conn.socks[s].est /\ conn.socks[s].st # "closed" /\ conn'.socks[s].st = "closed"

\* C6: once stop() has been called no socket is dialled and the runtime
\* never goes from not Connected to Connected, whatever was in progress,
\* and no socket stays open or connecting and the listener is closed.
C6_StopIsFinal ==
  /\ [](conn.stopped => (~conn.listening /\ LiveSocks(conn) = {}))
  /\ [][conn.stopped =>
          /\ \A s \in SockIds : ~Dialled(s)
          /\ (conn'.isConnected => conn.isConnected)]_vars

\* The delay C7 states: the configured one, 1000 ms when none is.
StatedDelay == IF conn.config.reconnectDelay # 0 THEN conn.config.reconnectDelay ELSE 1000

\* One step of the reconnect contract: losing an established connection
\* before stop() leaves exactly one reconnect timer of the stated delay and
\* no connection attempt before it fires; a backOff run begins only in
\* start() or when such a timer fires, one run per timer; and a socket the
\* peer accepts makes the runtime Connected.
ReconnectStep ==
  /\ \A s \in SockIds :
       (EstablishedLost(s) /\ ~conn.stopped) =>
         /\ conn.timers = << >> /\ ActiveLoops(conn) = {}
         /\ conn'.timers = <<StatedDelay>>
         /\ ActiveLoops(conn') = {} /\ LiveSocks(conn') \subseteq LiveSocks(conn)
  /\ (ActiveLoops(conn') \ ActiveLoops(conn) # {}) =>
       /\ Cardinality(ActiveLoops(conn')) = 1
       /\ \/ conn.start.st = "none"
          \/ Len(conn.timers) = 1 /\ conn'.timers = << >>
  /\ Len(conn'.timers) < Len(conn.timers) =>
       \E s \in SockIds : Dialled(s) /\ conn'.ws = s
  /\ \A s \in SockIds : Opens(s) => conn'.isConnected

\* C7 as stated: the reconnect contract, in either mode.
C7_OneReconnectCycle == [][ReconnectStep]_vars

\* C7: the reconnect contract in dial mode (in accept mode the runtime
\* starts no reconnect cycle and waits for the peer to connect again).
C7_OneReconnectCycleWhenDialling ==
  [][conn.config.mode = OUTBOUND => ReconnectStep]_vars

\* In dial mode, with no reconnect delay configured, the runtime is
\* Connected a second time and stop() was never called.
C7_Witness ==
  /\ conn.config.mode = OUTBOUND /\ conn.config.reconnectDelay = 0
  /\ ~conn.stopped /\ conn.connCount = 2 /\ conn.isConnected
  /\ conn.ws # 0 /\ conn.socks[conn.ws].st = "open"

\* C8: with no maxAttempts, after start() has succeeded, while stop() has
\* not been called and the runtime is not Connected, something is pending
\* that makes a further connection attempt: a reconnect timer or a backOff
\* run (without one no attempt is ever made again).
C8_ReconnectionNeverGivesUp ==
  (/\ conn.config.mode = OUTBOUND /\ conn.config.maxAttempts = 0
   /\ conn.start.st = "resolved"
   /\ ~conn.stopped /\ ~conn.isConnected)
  => (conn.timers # << >> \/ ActiveLoops(conn) # {})

\* The attempt count C9 calls bounded: maxAttempts, or the one backOff
\* applies when there is none.
StatedAttempts == IF conn.config.maxAttempts # 0 THEN conn.config.maxAttempts ELSE DefaultNumOfAttempts

\* C9: in dial mode start() has completed only if a connection has opened;
\* it has failed only if no connection ever opened and the attempt count
\* is used up, and then with an attempt's error; until then it is pending
\* on a backOff run that has attempts left.
C9_StartAwaitsFirstConnection ==
  conn.config.mode = OUTBOUND =>
    /\ conn.start.st = "resolved" => conn.connCount >= 1
    /\ conn.start.st = "rejected" =>
         /\ conn.connCount = 0
         /\ conn.start.failures = StatedAttempts
         /\ conn.start.err \in {"connect failed", "closed before the connection was established"}
    /\ conn.start.st = "awaiting" =>
         /\ conn.connCount = 0
         /\ \E l \in LoopIds : /\ conn.loops[l].phase # "idle" /\ conn.loops[l].start
                               /\ conn.loops[l].n < StatedAttempts

\* start() has failed after two failed attempts (maxAttempts = 2).
C9_Witness ==
  /\ conn.config.mode = OUTBOUND /\ conn.config.maxAttempts = 2
  /\ conn.start.st = "rejected" /\ conn.start.failures = 2
  /\ ~conn.stopped

\* The messages a registration consists of: register_provider first and
\* once, then exactly one register_handler per registered handler of each
\* kind, and nothing else.
Occurrences(msgs, m) == Cardinality({i \in 1..Len(msgs) : msgs[i] = m})
IsRegistration(msgs, h) ==
  /\ Len(msgs) = 1 + Len(h.tx) + Len(h.es) + Len(h.ep)
  /\ msgs[1] = RegisterProvider
  /\ Occurrences(msgs, RegisterProvider) = 1
  /\ \A i \in 1..Len(h.tx) : Occurrences(msgs, RegisterHandler(h.tx[i], "transaction_handler")) = 1
  /\ \A i \in 1..Len(h.es) : Occurrences(msgs, RegisterHandler(h.es[i], "event_source")) = 1
  /\ \A i \in 1..Len(h.ep) : Occurrences(msgs, RegisterHandler(h.ep[i], "event_processor")) = 1

\* C10: whenever a socket opens (dialled or accepted, first or later) the
\* runtime is Connected, the registration went out on that socket, and the
\* ping interval is armed.
C10_RegistersOnEveryConnect ==
  [][\A s \in SockIds : Opens(s) =>
        /\ conn'.isConnected
        /\ conn'.regLog.sock = s
        /\ IsRegistration(conn'.regLog.msgs, conn.config.handlers)
        /\ conn'.pingInterval]_vars

\* The runtime is Connected for the second time, with three handlers
\* registered, and the registration of this connection has gone out.
C10_Witness ==
  /\ conn.connCount = 2 /\ conn.isConnected /\ conn.pingInterval
  /\ Len(conn.regLog.msgs) = 4 /\ conn.regLog.sock = conn.ws
  /\ conn.socks[conn.ws].st = "open"

\* C11: while the runtime is Connected on a socket whose peer has sent no
\* pong, no ping stays unanswered for longer than the pong timeout: by then
\* the socket has been terminated.
C11_UnansweredPingTerminates ==
  \A s \in SockIds :
    (/\ conn.ws = s /\ conn.isConnected /\ conn.socks[s].st = "open"
     /\ ~conn.socks[s].ponged)
    => conn.socks[s].unanswered <= PONG_TIMEOUT_MS(conn.config)

\* ------------------------------------------------- correlator claims
\* The step is a call of submitAsyncTransactions, a frame being handled.
Submits == client'.made = client.made + 1
Handles == inbox # NoFrame /\ inbox' = NoFrame /\ conn' = conn
OtherCallsKept(k) == \A j \in CallIds \ {k} : client'.calls[j] = client.calls[j]

\* C12: a submitAsyncTransactions call made while the runtime is not
\* connected, or while no active context is set, fails at once with the
\* error saying which; inflightRequests is as before and no request
\* message of the call exists.
C12_SubmitFailsFast ==
  [][(Submits /\ (~isWebSocketConnected(conn) \/ activeHandlerContext = NoValue)) =>
       LET k == client'.made
       IN /\ client'.calls[k].st = "threw"
          /\ client'.calls[k].error =
               IF ~isWebSocketConnected(conn) THEN "KA140627" ELSE "KA140616"
          /\ client'.calls[k].wire = ""
          /\ client'.inflightRequests = client.inflightRequests
          /\ OtherCallsKept(k)]_vars

\* One call failed for want of a connection and the other for want of an
\* active context, and nothing is in flight.
C12_Witness ==
  /\ client.calls[1].st = "threw" /\ client.calls[2].st = "threw"
  /\ client.calls[1].error # client.calls[2].error
  /\ client.inflightRequests = {}

\* C13: the ids in flight are those of the pending calls; a frame whose id
\* is in flight removes the id and settles that call, rejected with the
\* frame's error if it has one, else resolved with its submissions, the
\* empty array if it has none; and a settled call never changes again.
C13_MatchingReplySettlesOnce ==
  /\ [](client.inflightRequests = {k \in CallIds : client.calls[k].st = "pending"})
  /\ [][/\ (Handles /\ inbox.id \in client.inflightRequests) =>
             /\ client'.inflightRequests = client.inflightRequests \ {inbox.id}
             /\ client'.calls[inbox.id] =
                  IF inbox.body.error # ""
                    THEN [client.calls[inbox.id] EXCEPT !.st = "rejected",
                                                        !.error = inbox.body.error]
                    ELSE [client.calls[inbox.id] EXCEPT
                            !.st = "resolved",
                            !.result = IF inbox.body.hasSubmissions
                                         THEN inbox.body.submissions ELSE << >>]
        /\ \A k \in CallIds :
             client.calls[k].st \in {"resolved", "rejected", "threw"} =>
               /\ client'.calls[k].st = client.calls[k].st
               /\ client'.calls[k].result = client.calls[k].result
               /\ client'.calls[k].error = client.calls[k].error]_vars

\* Call 1 was rejected with the frame's error, and a later frame with its
\* id has been handled and found no call.
C13_Witness ==
  /\ client.calls[1].st = "rejected" /\ client.calls[1].error = "boom"
  /\ client.unknown = 1 /\ 1 \notin client.inflightRequests
  /\ inbox = NoFrame

\* C14: a call that passes its checks is registered under an id no call in
\* flight has and leaves the others as they are; a frame being handled
\* changes no call but the one with its id, which stays or leaves
\* inflightRequests alone.
C14_CallsSettleIndependently ==
  [][/\ (Submits /\ isWebSocketConnected(conn) /\ activeHandlerContext # NoValue) =>
          LET k == client'.made
          IN /\ k \notin client.inflightRequests
             /\ client'.inflightRequests = client.inflightRequests \cup {k}
             /\ client'.calls[k].st = "pending"
             /\ OtherCallsKept(k)
     /\ Handles =>
          /\ OtherCallsKept(inbox.id)
          /\ client'.inflightRequests \ {inbox.id} = client.inflightRequests \ {inbox.id}]_vars

\* Both calls were in flight together and the later one has been resolved
\* while the earlier one is still pending.
C14_Witness ==
  /\ client.calls[1].st = "pending" /\ 1 \in client.inflightRequests
  /\ client.calls[2].st = "resolved" /\ 2 \notin client.inflightRequests
  /\ client.unknown = NoWarning

\* C15: a frame whose id is not in flight is logged as a response for an
\* unknown request and changes nothing else: every call and
\* inflightRequests are as before.
C15_UnknownReplyIgnored ==
  [][(Handles /\ inbox.id \notin client.inflightRequests) =>
       client' = [client EXCEPT !.unknown = inbox.id]]_vars

\* A frame with an id no call was given has been handled while both calls
\* were in flight; they still are.
C15_Witness ==
  /\ client.unknown = UnknownId /\ inbox = NoFrame
  /\ client.inflightRequests = CallIds
  /\ \A k \in CallIds : client.calls[k].st = "pending"

\* C16: no call is pending whose request went out on a connection that the
\* heartbeat terminated and whose close has been handled.
C16_HeartbeatAbortsPendingCalls ==
  \A k \in CallIds :
    ~(client.calls[k].st = "pending" /\ client.calls[k].wire = "heartbeat")

\* ------------------------------------------------- mapOutput claims
\* The call of mapOutput has returned; its arguments, as the claims name them.
Returned == mapping.st = "returned"
Override == mapping.o.customStage
HasOverride == Override # ""
\* An output that cannot be stored, with no error of the caller's to keep
\* the outcome as it is.
Unstorable == mapping.o.output # NoValue /\ mapping.sd.outputPath = ""
OutputLost ==
  mapping.o.output # NoValue /\ mapping.sd.outputPath = "" /\ mapping.o.error = NoValue
\* The state updates before the outcome is looked at: the output's
\* operation, if it can be stored, then the caller's extra operations.
StoredUpdates ==
  (IF mapping.o.output # NoValue /\ mapping.sd.outputPath # ""
     THEN <<AddOp(mapping.sd.outputPath, mapping.o.output)>> ELSE << >>)
  \o mapping.o.extraUpdates
CompleteWithStage ==
  Returned /\ mapping.o.result = COMPLETE /\ (mapping.sd.nextStage # "" \/ HasOverride)
CompleteTransition ==
  /\ mapping.reply.stage = IF HasOverride THEN Override ELSE mapping.sd.nextStage
  /\ mapping.reply.error = Absent
  /\ (mapping.o.output # NoValue /\ mapping.sd.outputPath # "")
       => /\ mapping.reply.stateUpdates[1] = AddOp(mapping.sd.outputPath, mapping.o.output)
          /\ mapping.reply.stateUpdates = StoredUpdates

\* C17 (as stated): for outcome COMPLETE with a non-empty nextStage or an
\* override stage, the reply's stage is the override stage if present and
\* otherwise nextStage, the reply has no error, and a non-null output with a
\* non-empty outputPath becomes exactly one add operation at outputPath
\* carrying the output (followed only by the caller's extra operations).
C17_CompleteTransitions == CompleteWithStage => CompleteTransition

\* C17 (amended): the same, except when a non-null output meets an empty
\* outputPath; if no error was supplied either, the outcome is downgraded
\* to FIXABLE_ERROR and the reply carries the output-path error and no stage.
C17_CompleteTransitionsUnlessOutputLost ==
  /\ (CompleteWithStage /\ ~Unstorable) => CompleteTransition
  /\ (CompleteWithStage /\ OutputLost)
       => mapping.reply.error = MsgOutputPathMissing /\ mapping.reply.stage = NoStage
C17_Witness ==
  /\ CompleteWithStage /\ HasOverride /\ mapping.sd.nextStage # ""
  /\ mapping.o.output # NoValue /\ mapping.sd.outputPath # ""
  /\ mapping.o.extraUpdates # << >>
  /\ mapping.reply.stage = Override

\* C18: outcome COMPLETE with an empty nextStage and no override stage
\* produces an error reply with no stage set.
C18_CompleteWithoutStageIsError ==
  (Returned /\ mapping.o.result = COMPLETE /\ mapping.sd.nextStage = "" /\ ~HasOverride)
    => mapping.reply.error # Absent /\ mapping.reply.stage = NoStage
C18_Witness ==
  /\ Returned /\ mapping.o.result = COMPLETE
  /\ mapping.sd.nextStage = "" /\ ~HasOverride
  /\ mapping.reply = ErrorResult(MsgNextStageMissing)
  /\ mapping.o.output # NoValue /\ mapping.sd.outputPath # ""

HardFailureWithStage ==
  Returned /\ mapping.o.result = HARD_FAILURE
           /\ (mapping.sd.failureStage # "" \/ HasOverride)
HardFailureTransition ==
  /\ mapping.reply.stage = IF HasOverride THEN Override ELSE mapping.sd.failureStage
  /\ mapping.reply.error = Absent
  /\ mapping.o.error # NoValue
       => mapping.reply.stateUpdates =
            Append(StoredUpdates, AddOp("/error", mapping.o.error))
  /\ mapping.o.error = NoValue => mapping.reply.stateUpdates = StoredUpdates

\* C19 (as stated): for outcome HARD_FAILURE with a non-empty failureStage
\* or an override stage, the reply's stage is the override stage if present
\* and otherwise failureStage, reply.error is not set, and a supplied error
\* is appended to the reply's state updates as an add operation at /error
\* carrying its message.
C19_HardFailureTransitions == HardFailureWithStage => HardFailureTransition

\* C19 (amended): the same, except when a non-null output meets an empty
\* outputPath; if no error was supplied either, the outcome is downgraded
\* to FIXABLE_ERROR and the reply carries the output-path error and no stage.
C19_HardFailureTransitionsUnlessOutputLost ==
  /\ (HardFailureWithStage /\ ~Unstorable) => HardFailureTransition
  /\ (HardFailureWithStage /\ OutputLost)
       => mapping.reply.error = MsgOutputPathMissing /\ mapping.reply.stage = NoStage
C19_Witness ==
  /\ HardFailureWithStage /\ HasOverride /\ mapping.sd.failureStage # ""
  /\ mapping.o.error # NoValue /\ mapping.o.extraUpdates # << >>
  /\ mapping.reply.stage = Override
  /\ mapping.reply.stateUpdates[Len(mapping.reply.stateUpdates)]
       = AddOp("/error", mapping.o.error)

\* C20: outcome HARD_FAILURE with an empty failureStage and no override
\* stage yields a reply with an error and no stage set, whether or not an
\* error was supplied.
C20_HardFailureWithoutStageIsError ==
  (Returned /\ mapping.o.result = HARD_FAILURE
            /\ mapping.sd.failureStage = "" /\ ~HasOverride)
    => /\ mapping.reply.error # Absent
       /\ mapping.reply.stage = NoStage
       /\ mapping.o.error # NoValue => mapping.reply.error = mapping.o.error
C20_Witness ==
  /\ Returned /\ mapping.o.result = HARD_FAILURE
  /\ mapping.sd.failureStage = "" /\ ~HasOverride
  /\ mapping.o.error = NoValue
  /\ mapping.reply.error = MsgFailureStageMissing

\* C21: outcome WAITING never sets the reply's stage, whatever output,
\* error or override stage the callback supplied.
C21_WaitingSetsNoStage ==
  (Returned /\ mapping.o.result = WAITING) => mapping.reply.stage = NoStage
C21_Witness ==
  /\ Returned /\ mapping.o.result = WAITING
  /\ mapping.o.output # NoValue /\ mapping.o.error # NoValue /\ HasOverride
  /\ mapping.sd.nextStage # "" /\ mapping.sd.failureStage # ""
  /\ mapping.reply.stage = NoStage

\* C22: whenever the callback supplies a non-null output and the
\* directive's outputPath is empty, the reply is an error reply with no
\* stage set, for every outcome kind and every combination of the other
\* outcome fields.
C22_UnstorableOutputIsError ==
  (Returned /\ Unstorable)
    => mapping.reply.error # Absent /\ mapping.reply.stage = NoStage

\* The state updates of a reply that keeps what was collected before the
\* outcome was looked at; a HARD_FAILURE that transitions with a supplied
\* error adds its /error operation at the end (C19).
ExpectedUpdates ==
  IF HardFailureWithStage /\ mapping.o.error # NoValue
    THEN Append(StoredUpdates, AddOp("/error", mapping.o.error))
    ELSE StoredUpdates

\* C23: whenever the callback supplies extra patch operations, they appear
\* in the reply's state updates in their given order, after the
\* output-derived add operation when there is one, for every outcome kind;
\* with no output and only extra updates the state updates are exactly the
\* extra operations.
C23_ExtraUpdatesAlwaysAppended ==
  (Returned /\ mapping.o.extraUpdates # << >>)
    => mapping.reply.stateUpdates = ExpectedUpdates

\* C24: triggers and events returned by a callback are copied unchanged
\* onto the reply for every outcome kind, whether or not a stage transition
\* happens.
C24_TriggersAndEventsCopied ==
  Returned => /\ mapping.reply.triggers = mapping.o.triggers
              /\ mapping.reply.events = mapping.o.events

\* ------------------------------------------------ event request claims
\* Request n arrives in this step.
Arrives(n) == inbound.received = n - 1 /\ inbound'.received = n
\* The result message type that matches a request kind.
MatchingResult(kind) ==
  CASE kind = "event_source_poll" -> "event_source_poll_result"
    [] kind = "event_source_validate_config" -> "event_source_validate_config_result"
    [] kind = "event_source_delete" -> "event_source_delete_result"
    [] OTHER -> "event_processor_batch_result"
\* The handler a request of this kind names is not registered or, for a
\* poll, no config is stored for its stream.
NothingToServe(kind, handler, streamId) ==
  \/ kind = "event_processor_batch" /\ handler \notin eventProcessors
  \/ kind # "event_processor_batch" /\ handler \notin eventSources
  \/ kind = "event_source_poll" /\ inbound.eventSourceConfigs[streamId] = 0

\* C28: for event_source_poll, event_source_validate_config,
\* event_source_delete and event_processor_batch requests, if the named
\* handler is not registered (or, for poll, no config is stored for the
\* stream), the runtime sends, in the step the request arrives, the
\* matching result message with the request's id and an error naming the
\* handler (and the stream for poll), and invokes no user code for it then
\* or later.
C28_MissingEventHandlerAnswered ==
  /\ [](\A n \in 1..MaxRequests :
          (inbound.requests[n].st # "none" /\ ~inbound.requests[n].called)
            => inbound.requests[n].st = "done")
  /\ [][\A n \in 1..MaxRequests :
          /\ (inbound.requests[n].st # "none")
               => inbound'.requests[n].called = inbound.requests[n].called
          /\ Arrives(n) =>
               LET req == inbound'.requests[n]
               IN NothingToServe(req.kind, req.handler, req.streamId) =>
                    /\ ~req.called
                    /\ Len(sent') = Len(sent) + 1
                    /\ LET m == sent'[Len(sent')]
                       IN /\ m.messageType = MatchingResult(req.kind)
                          /\ m.id = RequestId(n)
                          /\ m.error # Absent
                          /\ \E k \in 1..Len(m.error) : m.error[k] = req.handler
                          /\ req.kind = "event_source_poll"
                               => \E k \in 1..Len(m.error) : m.error[k] = req.streamId
      ]_vars
C28_Witness ==
  /\ inbound.received = 2
  /\ inbound.requests[1].kind = "event_source_delete" /\ inbound.requests[1].called
  /\ inbound.requests[1].st = "done"
  /\ inbound.requests[2].kind = "event_source_poll" /\ inbound.requests[2].handler = "src1"
  /\ inbound.requests[2].streamId = inbound.requests[1].streamId
  /\ ~inbound.requests[2].called
  /\ Len(sent) = 2 /\ sent[2].error = <<"No event source or config", "src1", inbound.requests[2].streamId>>

\* ------------------------------------------------ accept-mode claims
\* Socket s is accepted in this step.
Accepted(s) ==
  /\ conn.config.mode = INBOUND
  /\ conn.socks[s].st = "closed" /\ conn'.socks[s].st = "open"
\* The accepted connections that are the session: the runtime's current
\* socket, the one sendMessage writes to.
Sessions(c) == {s \in SockIds : c.ws = s /\ c.socks[s].st = "open"}

\* C29: in accept mode at most one accepted connection is the session at
\* any time; when a new connection is accepted while a prior one is live,
\* the new connection becomes the session (it is connected and gets the
\* registration) and the prior one no longer is.
C29_NewConnectionReplacesSession ==
  /\ [](conn.config.mode = INBOUND => Cardinality(Sessions(conn)) <= 1)
  /\ [][\A s \in SockIds :
          Accepted(s) =>
            /\ Sessions(conn') = {s}
            /\ conn'.isConnected
            /\ conn'.regLog.sock = s
            /\ \A p \in Sessions(conn) : p # s /\ p \notin Sessions(conn')
      ]_vars
C29_Witness ==
  /\ conn.config.mode = INBOUND
  /\ conn.socks[1].st = "open" /\ conn.socks[2].st = "open"
  /\ conn.ws = 2 /\ conn.isConnected /\ conn.regLog.sock = 2
\* ------------------------------------------------ connection request claims
\* C31: when an auth token is configured and no auth header name is given,
\* the request of every dialled socket carries the token in the X-Kld-Authz
\* header and carries no Authorization header.
C31_DefaultAuthHeader ==
  \A s \in SockIds :
    (/\ conn.socks[s].st # "closed"
     /\ conn.config.mode = OUTBOUND
     /\ conn.config.auth.authToken # ""
     /\ conn.config.auth.authHeaderName = << >>)
    => /\ <<"X-Kld-Authz", conn.config.auth.authToken>> \in conn.socks[s].headers
       /\ \A h \in conn.socks[s].headers : h[1] # "Authorization"
\* ------------------------------------------------ active context claims
\* C32: a round-trip call made by the user code of inbound request n while
\* it is in progress is sent with activeRequestId equal to the id of
\* request n (the key under which the engine holds that request's auth
\* tokens); only a lost connection makes the call fail instead.
C32_CallCarriesOwnRequest ==
  \A k \in CallIds :
    client.calls[k].by # 0
    => \/ client.calls[k].st = "threw" /\ client.calls[k].error = MsgSDKEngineNotConnected
       \/ /\ client.calls[k].wire = "sent"
          /\ client.calls[k].activeRequestId = RequestId(client.calls[k].by)
\* ------------------------------------------------ socket claims
\* C33: at every moment at most one socket of the runtime is live (open or
\* connecting), across attempts, retries, reconnect cycles and accepted
\* connections.
C33_AtMostOneLiveSocket == Cardinality(LiveSocks(conn)) <= 1
\* ------------------------------------------------ heartbeat claims
\* C35: after every disconnect and after stop() no heartbeat timer remains
\* armed: while the runtime is not connected, or has been stopped, no ping
\* interval and no pong timeout it created is pending.
C35_NoTimerAfterDisconnect ==
  (~conn.isConnected \/ conn.stopped)
  => ~conn.pingInterval /\ ~conn.pongTimeout /\ ~conn.leakedInterval

\* A pong is received on socket s in this step; the heartbeat terminates
\* socket s in this step.
PongReceived(s) ==
  conn.socks[s].unanswered >= 0 /\ conn'.socks[s].unanswered = -1
  /\ conn'.socks[s].st = "open"
HeartbeatTerminates(s) == ~conn.socks[s].forced /\ conn'.socks[s].forced

\* C36: receiving a pong cancels the armed pong timeout, and the heartbeat
\* terminates a socket only when a ping sent on it has gone unanswered for
\* pongTimeout: a connection whose every ping is answered in time is never
\* terminated by the heartbeat.
C36_PongCancelsTimeout ==
  [][\A s \in SockIds :
       /\ PongReceived(s) => ~conn'.pongTimeout
       /\ HeartbeatTerminates(s)
          => conn.socks[s].unanswered >= PONG_TIMEOUT_MS(conn.config)]_vars
\* ------------------------------------------------ batch mapping claims
\* C37: the outcome a batch callback returns for an item is mapped to the
\* item's reply exactly as execMapped maps the same outcome of a Parallel
\* callback, the events and triggers of the outcome included.
C37_BatchMappedLikeParallel ==
  evalState = "resolved" =>
    \A i \in 1..NumItems :
      LET sd == batch.transactions[i].sd
      IN (/\ Routed(batch.transactions, i)
          /\ actionMap[sd.action].invocationMode = BATCH
          /\ ~batOut[sd.action].thrown
          /\ Len(batOut[sd.action].results) = Len(Bucket(batch.transactions, sd.action)))
         => response.results[i] =
              execMapped([handler |-> TRUE], sd,
                         batOut[sd.action].results[PositionInBucket(batch.transactions, i)]).value
\* ------------------------------------------------ stream config claims
\* C38: once a config message for a stream has been received, the config
\* the runtime holds for the stream is the one received last (until the
\* stream is deleted), and every poll served for the stream has its poll
\* function called with the config received last before the poll.
C38_PollUsesLatestConfig ==
  /\ \A s \in StreamIds :
       inbound.eventSourceConfigs[s] \in {0, inbound.configsSeen[s]}
  /\ \A n \in 1..MaxRequests :
       (inbound.requests[n].kind = "event_source_poll" /\ inbound.requests[n].called)
       => /\ inbound.requests[n].config # 0
          /\ inbound.requests[n].conf = inbound.requests[n].config
\* ------------------------------------------------ context lifetime claims
\* User code of some request is in progress; the user code of request n
\* settles in this step.
InProgress == \E n \in 1..MaxRequests : inbound.requests[n].st = "running"
Settles(n) == inbound.requests[n].st = "running" /\ inbound'.requests[n].st = "done"

\* C34: the active context is cleared in the step in which a handler
\* callback settles, whether it returned or threw, and whenever no handler
\* callback is in progress the active context is undefined.
C34_ContextClearedOnSettle ==
  /\ [](~InProgress => activeHandlerContext = NoValue)
  /\ [][\A n \in 1..MaxRequests : Settles(n) => activeHandlerContext' = NoValue]_vars

\* C34 witness: a callback has thrown, its error reply is sent, nothing is in
\* progress and the context is undefined.
C34_Witness ==
  /\ ~InProgress
  /\ inbound.received >= 1
  /\ inbound.requests[1].called /\ inbound.requests[1].st = "done"
  /\ \E i \in 1..Len(sent) : sent[i].id = RequestId(1) /\ sent[i].error = <<"user code failed">>
  /\ activeHandlerContext = NoValue
\* C40: handling a request that names no registered handler does not
\* change the active context while the handler callback of another request
\* is still in progress.
C40_UnregisteredLeavesContext ==
  [][\A n \in 1..MaxRequests :
       (/\ Arrives(n)
        /\ inbound'.requests[n].handler \notin eventSources \cup eventProcessors
        /\ InProgress)
       => activeHandlerContext' = activeHandlerContext]_vars
\* ------------------------------------------------ stale socket claims
\* The 'error' or 'close' of socket s is handled in this step while another
\* socket is the runtime's current one.
StaleEvent(s) ==
  /\ conn.ws # 0 /\ conn.ws # s /\ conn'.ws = conn.ws
  /\ conn.socks[s].st # "closed"
  /\ conn'.socks[s].st # conn.socks[s].st

\* C39: a close or error event from a socket that is no longer the current
\* socket does not change the connected flag, does not cancel the current
\* connection's heartbeat timers, does not settle a connection attempt and
\* does not schedule a reconnect.
C39_StaleSocketEventIgnored ==
  [][\A s \in SockIds :
       StaleEvent(s)
       => /\ conn'.isConnected = conn.isConnected
          /\ conn'.pingInterval = conn.pingInterval
          /\ conn'.pongTimeout = conn.pongTimeout
          /\ conn'.loops = conn.loops /\ conn'.start = conn.start
          /\ conn'.timers = conn.timers]_vars

====
